---- MODULE Spec2Model ----
(***************************************************************************)
(* Signaling and session-state core of smart_interview_platform:           *)
(*   - Registry      repos/file_storage_manager_repo.py  FileStorageManager *)
(*   - Hub           service/connection_manager_service.py ConnectionManager*)
(*   - Recorder      service/recorder_service.py  RecorderManager/Session   *)
(*   - Dispatcher    endpoints/websocket_routes_endpoint.py                 *)
(* The asyncio event loop runs one task at a time; a task gives up the     *)
(* loop only at an await.  A step of the model is the code a task runs     *)
(* from one await to the next.                                             *)
(***************************************************************************)
EXTENDS Integers, Sequences, FiniteSets, TLC

\* ------------------------------------------------------------------ bounds
\* number of create_room calls (uuid4 room identifiers handed out)
MaxRooms == 2
\* number of join_room calls (uuid4 user identifiers handed out)
MaxUsers == 3

RoomIds == 1..MaxRooms
UserIds == 1..MaxUsers
\* capacities a CreateRoomRequest may carry (max_participants: int, unvalidated)
Capacities == {0, 1, 2}
\* CreateRoomRequest.max_participants when the request names none
DefaultCapacity == 100
\* number of websockets opened on /ws/{room_id}/{user_id}
MaxSockets == 2
Sockets == 1..MaxSockets
\* number of websockets opened in the one-room scenario
MaxMembers == 3
Members == 1..MaxMembers
AllSockets == Sockets \cup Members
\* the task that serves DELETE /api/rooms/{room_id} of main.py (it has no
\* websocket of its own)
Host == 0
Tasks == AllSockets \cup {Host}
\* number of RecorderSession objects created
MaxSessions == 2
\* number of track events the peer connections deliver
MaxTracks == 2
Tracks == 1..MaxTracks

VARIABLES
  rooms,          \* rooms.json:        room_id -> room record
  participants,   \* participants.json: room_id -> (user_id -> user_info)
  next_room_id,   \* rooms created so far (uuid4()[:8] is modelled as fresh)
  next_user_id,   \* users created so far (uuid4()[:8] is modelled as fresh)
  ever_joined     \* history: rooms that some join_room has succeeded on

VARIABLES
  active_connections, \* ConnectionManager: room_id -> {user_id: websocket}
  user_to_room,       \* ConnectionManager: websocket -> (room_id, user_id)
  ws,                 \* state of each websocket: new, open, gone, closed
  close_code,         \* code of the close the server sent on a websocket
  wire,               \* the send_text the last step made, if it made one
  task,               \* the websocket_endpoint task of each websocket
  returned            \* what the Hub call that ended in the last step returned

VARIABLES
  sessions,   \* RecorderManager.sessions: (room_id, user_id) -> RecorderSession
  sess,       \* the RecorderSession objects created so far
  pcs,        \* the RTCPeerConnection objects created so far
  recs,       \* the MediaRecorder objects created so far
  trk         \* the on_track handler of each track event

regVars == <<rooms, participants>>
idVars == <<next_room_id, next_user_id, ever_joined>>
hubVars == <<active_connections, user_to_room>>
netVars == <<ws, close_code, wire>>
recVars == <<sessions, sess, pcs, recs, trk>>
vars == <<rooms, participants, next_room_id, next_user_id, ever_joined,
          active_connections, user_to_room, ws, close_code, wire, task, returned,
          sessions, sess, pcs, recs, trk>>

\* ------------------------------------------------------- dict helpers
\* Python dict operations on TLA+ functions whose DOMAIN is the key set.
DictSet(d, k, v) == [x \in DOMAIN d \cup {k} |-> IF x = k THEN v ELSE d[x]]
DictDel(d, k) == [x \in DOMAIN d \ {k} |-> d[x]]
EmptyDict == [x \in {} |-> 0]

\* ---------------------------------------------------------------- Registry
\* Mutant: create_room writes the room record and no participant set.
create_room_no_set(rs, ps, room_id, max_participants) ==
  [rooms |-> DictSet(rs, room_id,
                [max_participants |-> max_participants,
                 is_active |-> TRUE,
                 current_participants |-> 0]),
   participants |-> ps]

\* FileStorageManager.create_room: the room record and its empty participant
\* set, written under file_lock.
create_room(rs, ps, room_id, max_participants) ==
  [rooms |-> DictSet(rs, room_id,
                [max_participants |-> max_participants,
                 is_active |-> TRUE,
                 current_participants |-> 0]),
   participants |-> DictSet(ps, room_id, EmptyDict)]

\* FileStorageManager.get_room: rooms.get(room_id)
get_room(rs, room_id) == IF room_id \in DOMAIN rs THEN {rs[room_id]} ELSE {}

\* FileStorageManager.get_room_participants: the user_ids of the room's
\* user_info records ([] when the room is unknown).
get_room_participants(ps, room_id) ==
  IF room_id \notin DOMAIN ps THEN {} ELSE DOMAIN ps[room_id]

\* get_room_info of rooms_endpoint.py: what the two reads return (404 when
\* get_room finds no room).
get_room_info(rs, ps, room_id) ==
  IF get_room(rs, room_id) = {}
  THEN [status |-> "404", room |-> {}, participants |-> {}]
  ELSE [status |-> "200", room |-> get_room(rs, room_id),
        participants |-> get_room_participants(ps, room_id)]

\* The user_info record join_room builds.
NewUserInfo ==
  [is_audio_enabled |-> TRUE, is_video_enabled |-> TRUE, is_connected |-> TRUE]

\* Mutant: join_room forgets to update the room's participant count.
join_room_no_count(rs, ps, room_id, user_id) ==
  IF room_id \notin DOMAIN rs
  THEN [rooms |-> rs, participants |-> ps, status |-> 404]
  ELSE LET pr == IF room_id \in DOMAIN ps THEN ps[room_id] ELSE EmptyDict
       IN [rooms |-> rs,
           participants |-> DictSet(ps, room_id, DictSet(pr, user_id, NewUserInfo)),
           status |-> 200]

\* FileStorageManager.join_room.  The capacity check is commented out in the
\* source (lines 87-89), so a join succeeds whatever the count is.
join_room(rs, ps, room_id, user_id) ==
  IF room_id \notin DOMAIN rs
  THEN [rooms |-> rs, participants |-> ps, status |-> 404]
  ELSE LET pr == IF room_id \in DOMAIN ps THEN ps[room_id] ELSE EmptyDict
       IN [rooms |-> [rs EXCEPT ![room_id].current_participants = @ + 1],
           participants |-> DictSet(ps, room_id, DictSet(pr, user_id, NewUserInfo)),
           status |-> 200]

Max0(n) == IF n < 0 THEN 0 ELSE n

\* Mutant: leave_room keeps the empty room (no clean-up of empty rooms).
leave_room_keep_empty(rs, ps, room_id, user_id) ==
  IF room_id \in DOMAIN ps /\ user_id \in DOMAIN ps[room_id]
  THEN LET ps1 == [ps EXCEPT ![room_id] = DictDel(@, user_id)]
       IN IF room_id \in DOMAIN rs
          THEN [rooms |-> [rs EXCEPT ![room_id].current_participants = Max0(@ - 1)],
                participants |-> ps1]
          ELSE [rooms |-> rs, participants |-> ps1]
  ELSE [rooms |-> rs, participants |-> ps]

\* FileStorageManager.leave_room
leave_room(rs, ps, room_id, user_id) ==
  IF room_id \in DOMAIN ps /\ user_id \in DOMAIN ps[room_id]
  THEN LET ps1 == [ps EXCEPT ![room_id] = DictDel(@, user_id)]
       IN IF room_id \in DOMAIN rs
          THEN LET n == Max0(rs[room_id].current_participants - 1)
               IN IF n = 0
                  THEN [rooms |-> DictDel(rs, room_id),
                        participants |-> DictDel(ps1, room_id)]
                  ELSE [rooms |-> [rs EXCEPT ![room_id].current_participants = n],
                        participants |-> ps1]
          ELSE [rooms |-> rs, participants |-> ps1]
  ELSE [rooms |-> rs, participants |-> ps]

\* Mutant: update_media_status writes the flags of every participant of the room.
update_media_status_whole_room(ps, room_id, user_id, audio_enabled, video_enabled) ==
  IF room_id \in DOMAIN ps /\ user_id \in DOMAIN ps[room_id]
  THEN [ps EXCEPT ![room_id] =
          [u \in DOMAIN ps[room_id] |->
             [ps[room_id][u] EXCEPT !.is_audio_enabled = audio_enabled,
                                    !.is_video_enabled = video_enabled]]]
  ELSE ps

\* FileStorageManager.update_media_status
update_media_status(ps, room_id, user_id, audio_enabled, video_enabled) ==
  IF room_id \in DOMAIN ps /\ user_id \in DOMAIN ps[room_id]
  THEN [ps EXCEPT ![room_id][user_id].is_audio_enabled = audio_enabled,
                  ![room_id][user_id].is_video_enabled = video_enabled]
  ELSE ps

\* ------------------------------------------- Registry copy of main.py
\* FileStorageManager.create_room of main.py
main_create_room(rs, ps, room_id, max_participants) ==
  [rooms |-> DictSet(rs, room_id,
                [max_participants |-> max_participants,
                 is_active |-> TRUE,
                 current_participants |-> 0]),
   participants |-> DictSet(ps, room_id, EmptyDict)]

\* FileStorageManager.get_room of main.py
main_get_room(rs, room_id) ==
  IF room_id \in DOMAIN rs THEN {rs[room_id]} ELSE {}

\* FileStorageManager.join_room of main.py: 404 for an unknown room, 400
\* "Room is full" when current_participants >= max_participants.
main_join_room(rs, ps, room_id, user_id) ==
  IF room_id \notin DOMAIN rs
  THEN [rooms |-> rs, participants |-> ps, status |-> 404]
  ELSE IF rs[room_id].current_participants >= rs[room_id].max_participants
  THEN [rooms |-> rs, participants |-> ps, status |-> 400]
  ELSE LET pr == IF room_id \in DOMAIN ps THEN ps[room_id] ELSE EmptyDict
       IN [rooms |-> [rs EXCEPT ![room_id].current_participants = @ + 1],
           participants |-> DictSet(ps, room_id, DictSet(pr, user_id, NewUserInfo)),
           status |-> 200]

\* FileStorageManager.leave_room of main.py
main_leave_room(rs, ps, room_id, user_id) ==
  IF room_id \in DOMAIN ps /\ user_id \in DOMAIN ps[room_id]
  THEN LET ps1 == [ps EXCEPT ![room_id] = DictDel(@, user_id)]
       IN IF room_id \in DOMAIN rs
          THEN LET n == Max0(rs[room_id].current_participants - 1)
               IN IF n = 0
                  THEN [rooms |-> DictDel(rs, room_id),
                        participants |-> DictDel(ps1, room_id)]
                  ELSE [rooms |-> [rs EXCEPT ![room_id].current_participants = n],
                        participants |-> ps1]
          ELSE [rooms |-> rs, participants |-> ps1]
  ELSE [rooms |-> rs, participants |-> ps]

\* FileStorageManager.get_room_participants of main.py
main_get_room_participants(ps, room_id) ==
  IF room_id \notin DOMAIN ps THEN {} ELSE DOMAIN ps[room_id]

\* FileStorageManager.update_media_status of main.py
main_update_media_status(ps, room_id, user_id, audio_enabled, video_enabled) ==
  IF room_id \in DOMAIN ps /\ user_id \in DOMAIN ps[room_id]
  THEN [ps EXCEPT ![room_id][user_id].is_audio_enabled = audio_enabled,
                  ![room_id][user_id].is_video_enabled = video_enabled]
  ELSE ps

\* ------------------------------------------------------------- messages
\* A message as a client sees it: its type, the user it is about (user_id,
\* from_user or new_user.user_id; 0 when it has none) and, for room-joined,
\* the existing_users list and is_initiator; audio_enabled and video_enabled
\* of new-user-joined (always True) and of user-media-changed.
Message(type, user, users, flag) ==
  [type |-> type, user |-> user, users |-> users, flag |-> flag,
   audio_enabled |-> TRUE, video_enabled |-> TRUE]

\* {"type": "user-media-changed", "user_id": ..., "audio_enabled": ...,
\*  "video_enabled": ...}
MediaChanged(user_id, audio_enabled, video_enabled) ==
  [Message("user-media-changed", user_id, {}, FALSE)
     EXCEPT !.audio_enabled = audio_enabled, !.video_enabled = video_enabled]
NoMessage == Message("none", 0, {}, FALSE)

\* ------------------------------------------- the Hub's per-room dicts
\* active_connections[room_id] is a Python dict.  Its entries keep their
\* insertion order; `del` leaves a hole at the entry's place and a new key is
\* appended, which is what an iterator over the dict walks through.
Hole == [k |-> 0, v |-> 0]
Keys(d) == {d[i].k : i \in DOMAIN d} \ {0}
Size(d) == Cardinality({i \in DOMAIN d : d[i].k # 0})
Has(d, k) == k \in Keys(d)
Get(d, k) == d[CHOOSE i \in DOMAIN d : d[i].k = k].v
Put(d, k, v) ==
  IF Has(d, k)
  THEN [i \in DOMAIN d |-> IF d[i].k = k THEN [k |-> k, v |-> v] ELSE d[i]]
  ELSE Append(d, [k |-> k, v |-> v])
Del(d, k) == [i \in DOMAIN d |-> IF d[i].k = k THEN Hole ELSE d[i]]
Items(d) == {<<d[i].k, d[i].v>> : i \in {j \in DOMAIN d : d[j].k # 0}}
Values(d) == {d[i].v : i \in {j \in DOMAIN d : d[j].k # 0}}

\* --------------------------------------------------------------- tasks
\* The frame of one broadcast_to_room call: its arguments, the dict iterator
\* (position, items left, size when it was created; `orphan` with `snap` when
\* the dict it walks has been removed from active_connections), the entry
\* being sent to, the `disconnected` list, and who called.  start, tried,
\* delivered, reached (the user ids whose send_text went out) and disturbed
\* record what the call did so far.
NoFrame ==
  [active |-> FALSE, msg |-> NoMessage, room |-> 0, exclude |-> 0,
   pos |-> 1, len |-> 0, used |-> 0, orphan |-> FALSE, snap |-> <<>>,
   cur |-> Hole, disconnected |-> <<>>, caller |-> "none",
   start |-> {}, tried |-> {}, delivered |-> {}, reached |-> {},
   disturbed |-> FALSE]

\* A websocket_endpoint task before its websocket is opened.  teardown (the
\* calls the finally made), n_user_left (user-left broadcasts of disconnect),
\* n_leave (leave_room calls), why (what brought the last turn of the loop to
\* its except), out (the message send_to_user is sending), claimed (the
\* from_user the client wrote in the negotiation message being handled),
\* connect_ret, loop_end (how the loop ended), again, crashed, registered
\* (connect has put the websocket in the Hub) and stop_failed (recorder.stop
\* raised inside the finally) record what the task did.  sid,
\* pcref and rid are the session, peer connection and recorder the recorder
\* call in progress holds; stop_ctx is the caller of recorder.stop; stop_err
\* says that recorder.stop() or pc.close() raised inside the task's last
\* RecorderSession.stop.  connections is the list of websockets end_room of
\* main.py has still to close.  evicted says that a failed send made another
\* task delete the websocket's entry of active_connections[room_id].
NoTask ==
  [pc |-> "idle", room_id |-> 0, user_id |-> 0, existing_users |-> {},
   frame |-> NoFrame, target |-> Hole, out |-> NoMessage, claimed |-> 0,
   teardown |-> <<>>, n_user_left |-> 0, n_leave |-> 0, why |-> "none",
   connect_ret |-> -1, loop_end |-> "none", again |-> FALSE,
   crashed |-> FALSE, registered |-> FALSE,
   sid |-> 0, pcref |-> 0, rid |-> 0, stop_ctx |-> "none", stop_failed |-> FALSE,
   stop_err |-> FALSE, connections |-> <<>>, evicted |-> FALSE]

\* No send_text in this step.
NoWire == [to |-> 0, msg |-> NoMessage, ok |-> FALSE]

\* No call returned to the dispatcher in this step.
NoReturn == [call |-> "none", value |-> "none"]

\* send_to_user has no return statement: its caller gets None whether the
\* message went out, the target was absent, or the send failed.
send_to_user_returns(s, delivered) ==
  [s EXCEPT !.returned = [call |-> "send_to_user", value |-> "None"]]

\* The state the tasks act on, as one record.
Here ==
  [rooms |-> rooms, participants |-> participants,
   active_connections |-> active_connections, user_to_room |-> user_to_room,
   ws |-> ws, close_code |-> close_code, wire |-> NoWire, task |-> task,
   returned |-> NoReturn,
   sessions |-> sessions, sess |-> sess, pcs |-> pcs, recs |-> recs,
   trk |-> trk]

Becomes(s) ==
  /\ rooms' = s.rooms
  /\ participants' = s.participants
  /\ active_connections' = s.active_connections
  /\ user_to_room' = s.user_to_room
  /\ ws' = s.ws
  /\ close_code' = s.close_code
  /\ wire' = s.wire
  /\ task' = s.task
  /\ returned' = s.returned
  /\ sessions' = s.sessions
  /\ sess' = s.sess
  /\ pcs' = s.pcs
  /\ recs' = s.recs
  /\ trk' = s.trk
  /\ UNCHANGED idVars

\* websocket.send_text(msg) on websocket c succeeds while c is open; the
\* attempt is put on the wire with its outcome.
CanSend(s, c) == s.ws[c] = "open"
Deliver(s, c, msg) == [s EXCEPT !.wire = [to |-> c, msg |-> msg, ok |-> TRUE]]
Undelivered(s, c, msg) == [s EXCEPT !.wire = [to |-> c, msg |-> msg, ok |-> FALSE]]

\* Another task changed active_connections[room_id] while task t was not
\* running: the broadcasts in progress over that dict are marked.
Touch(s, room_id, t) ==
  [s EXCEPT !.task = [x \in DOMAIN s.task |->
     IF x # t /\ s.task[x].frame.active /\ ~s.task[x].frame.orphan
        /\ s.task[x].frame.room = room_id
     THEN [s.task[x] EXCEPT !.frame.disturbed = TRUE]
     ELSE s.task[x]]]

\* del self.active_connections[room_id]: the iterators on the removed dict
\* keep the dict object as it was.
DelRoomDict(s, room_id, t) ==
  LET d == s.active_connections[room_id]
      s1 == Touch(s, room_id, t)
  IN [s1 EXCEPT
        !.active_connections = DictDel(@, room_id),
        !.task = [x \in DOMAIN s.task |->
           IF s1.task[x].frame.active /\ ~s1.task[x].frame.orphan
              /\ s1.task[x].frame.room = room_id
           THEN [s1.task[x] EXCEPT !.frame.orphan = TRUE, !.frame.snap = d]
           ELSE s1.task[x]]]

\* The endpoint coroutine is over: the server closes the websocket.
EndTask(s, t) ==
  [s EXCEPT !.task[t].pc = "done",
            !.task[t].frame = NoFrame, !.task[t].target = Hole,
            !.task[t].existing_users = {}, !.task[t].connect_ret = -1,
            !.task[t].why = "none", !.task[t].sid = 0, !.task[t].pcref = 0,
            !.task[t].rid = 0, !.task[t].stop_ctx = "none",
            !.task[t].out = NoMessage, !.task[t].claimed = 0,
            !.ws[t] = "closed"]

\* ------------------------------------------------------ ConnectionManager
RECURSIVE Finally(_, _)

\* The end of connect: the log line reads len(self.active_connections[room_id])
\* (KeyError when the room's dict is gone: the error leaves connect and the
\* endpoint's try, and finally runs), then connect returns len(existing_users)
\* and the loop receives.
ConnectReturn(s, t) ==
  IF s.task[t].room_id \notin DOMAIN s.active_connections
  THEN Finally([s EXCEPT !.task[t].loop_end = "error",
                         !.task[t].existing_users = {},
                         !.task[t].frame = NoFrame], t)
  ELSE [s EXCEPT !.task[t].pc = "receive",
                 !.task[t].connect_ret = Cardinality(s.task[t].existing_users),
                 !.task[t].existing_users = {},
                 !.task[t].frame = NoFrame]

\* end_room of main.py raised: the error leaves the handler (status 500).
end_room_raised(s, t, error) ==
  [s EXCEPT !.task[t].pc = "ended", !.task[t].crashed = TRUE,
            !.task[t].frame = NoFrame, !.task[t].connections = <<>>,
            !.returned = [call |-> "end_room", value |-> error]]

\* end_room of main.py after its closes: del manager.active_connections[room_id]
\* (KeyError when the room's dict has been removed meanwhile), then the
\* response.
end_room_delete(s, t) ==
  LET room_id == s.task[t].room_id
  IN IF room_id \notin DOMAIN s.active_connections
     THEN end_room_raised(s, t, "KeyError")
     ELSE [DelRoomDict(s, room_id, t)
             EXCEPT !.task[t].pc = "ended", !.task[t].connections = <<>>,
                    !.returned = [call |-> "end_room",
                                  value |-> "Room ended successfully"]]

\* for connection in connections: await connection.close(), up to the await;
\* the websocket is closed from the call on.
end_room_close(s, t) ==
  LET c == s.task[t].connections
  IN IF c = <<>> THEN end_room_delete(s, t)
     ELSE [s EXCEPT !.ws[Head(c)] = IF @ = "open" THEN "closed" ELSE @,
                    !.task[t].pc = "end_close"]

\* connections = list(manager.active_connections[room_id].values())
end_room_connections(s, t) ==
  LET room_id == s.task[t].room_id
  IN IF room_id \notin DOMAIN s.active_connections
     THEN end_room_raised(s, t, "KeyError")
     ELSE LET live == SelectSeq(s.active_connections[room_id],
                                LAMBDA e : e.k # 0)
          IN end_room_close(
               [s EXCEPT !.task[t].frame = NoFrame,
                         !.task[t].connections =
                            [i \in 1..Len(live) |-> live[i].v]], t)

\* broadcast_to_room has returned to its caller.
\*   end_room:   end_room of main.py goes on with its closes.
\*   connect:    connect goes on to its end.
\*   loop:       the handler is over; the loop receives.
\*   disconnect: disconnect goes on with storage.leave_room and the clean-up
\*               of the empty room dict, and the endpoint is over.
BcReturn(s, t) ==
  LET f == s.task[t].frame
      room_id == s.task[t].room_id
      user_id == s.task[t].user_id
  IN CASE f.caller = "connect" -> ConnectReturn(s, t)
       [] f.caller = "end_room" -> end_room_connections(s, t)
       [] f.caller = "loop" -> [s EXCEPT !.task[t].pc = "receive",
                                         !.task[t].frame = NoFrame]
       [] OTHER ->
            LET r == leave_room(s.rooms, s.participants, room_id, user_id)
                s1 == [s EXCEPT !.rooms = r.rooms, !.participants = r.participants,
                                !.task[t].n_leave = @ + 1]
                s2 == IF room_id \in DOMAIN s1.active_connections
                         /\ Size(s1.active_connections[room_id]) = 0
                      THEN DelRoomDict(s1, room_id, t)
                      ELSE s1
            IN EndTask(s2, t)

\* broadcast_to_room raised (RuntimeError from the dict iterator, KeyError
\* from the clean-up loop).
\*   end_room:   the error leaves end_room of main.py.
\*   connect:    the error leaves connect and the endpoint's try; finally runs.
\*   loop:       the bare except of the loop sends the error envelope.
\*   disconnect: the error leaves disconnect and the endpoint.
BcRaise(s, t) ==
  LET s1 == [s EXCEPT !.task[t].frame = NoFrame]
      caller == s.task[t].frame.caller
  IN CASE caller = "end_room" -> end_room_raised(s1, t, "RuntimeError")
       [] caller = "connect" ->
            Finally([s1 EXCEPT !.task[t].loop_end = "error",
                               !.task[t].existing_users = {}], t)
       [] caller = "loop" -> [s1 EXCEPT !.task[t].pc = "send_error",
                                        !.task[t].why = "handler"]
       [] OTHER -> EndTask([s1 EXCEPT !.task[t].crashed = TRUE], t)

\* for user_id in disconnected: if user_id in self.active_connections[room_id]:
\*     del self.active_connections[room_id][user_id]
RECURSIVE Evict(_, _, _)
Evict(d, disconnected, n) ==
  IF n > Len(disconnected) THEN d
  ELSE Evict(IF Has(d, disconnected[n]) THEN Del(d, disconnected[n]) ELSE d,
             disconnected, n + 1)

\* The websockets that the keys `users` of active_connections[room_id] map to
\* are noted as evicted.
MarkEvicted(s, room_id, users) ==
  LET d == s.active_connections[room_id]
  IN [s EXCEPT !.task = [x \in DOMAIN s.task |->
        IF \E u \in users : Has(d, u) /\ Get(d, u) = x
        THEN [s.task[x] EXCEPT !.evicted = TRUE]
        ELSE s.task[x]]]

BcCleanup(s, t) ==
  LET f == s.task[t].frame
  IN IF f.disconnected = <<>>
     THEN BcReturn(s, t)
     ELSE IF f.room \notin DOMAIN s.active_connections
     THEN BcRaise(s, t)
     ELSE LET s0 == MarkEvicted(s, f.room,
                      {f.disconnected[i] : i \in DOMAIN f.disconnected})
              s1 == [s0 EXCEPT !.active_connections[f.room] =
                                  Evict(@, f.disconnected, 1)]
          IN BcReturn(Touch(s1, f.room, t), t)

\* The dict a broadcast iterates.
BcDict(s, f) == IF f.orphan THEN f.snap ELSE s.active_connections[f.room]

\* First live entry of d at or after position pos (0 when there is none).
NextEntry(d, pos) ==
  LET live == {i \in DOMAIN d : i >= pos /\ d[i].k # 0}
  IN IF live = {} THEN 0 ELSE CHOOSE i \in live : \A j \in live : i <= j

\* The for loop of broadcast_to_room from the iterator's next() up to the next
\* await connection.send_text, or to the end of the call.
RECURSIVE BcAdvance(_, _)
BcAdvance(s, t) ==
  LET f == s.task[t].frame
      d == BcDict(s, f)
      i == NextEntry(d, f.pos)
  IN IF f.used # Size(d) THEN BcRaise(s, t)
     ELSE IF i = 0 THEN BcCleanup(s, t)
     ELSE IF f.len = 0 THEN BcRaise(s, t)
     ELSE LET s1 == [s EXCEPT !.task[t].frame.pos = i + 1,
                              !.task[t].frame.len = f.len - 1]
          IN IF d[i].k = f.exclude
             THEN BcAdvance(s1, t)
             ELSE [s1 EXCEPT !.task[t].frame.cur = d[i],
                             !.task[t].pc = "bc_send"]

\* broadcast_to_room(message, room_id, exclude_user) up to its first await.
broadcast_to_room(s, t, msg, room_id, exclude_user, caller) ==
  LET f0 == [NoFrame EXCEPT !.msg = msg, !.room = room_id,
                            !.exclude = exclude_user, !.caller = caller]
  IN IF room_id \notin DOMAIN s.active_connections
     THEN BcReturn([s EXCEPT !.task[t].frame = f0], t)
     ELSE LET d == s.active_connections[room_id]
          IN BcAdvance([s EXCEPT !.task[t].frame =
                          [f0 EXCEPT !.active = TRUE, !.len = Size(d),
                                     !.used = Size(d), !.start = Items(d)]], t)

\* Mutant: a send that raises ends the for loop of broadcast_to_room (the
\* try/except around the loop instead of inside it).
BcSent_stops_at_failure(s, t) ==
  LET f == s.task[t].frame
      c == f.cur.v
  IN IF CanSend(s, c)
     THEN BcAdvance([Deliver(s, c, f.msg)
                       EXCEPT !.task[t].frame.delivered = @ \cup {c},
                              !.task[t].frame.reached = @ \cup {f.cur.k},
                              !.task[t].frame.tried = @ \cup {c}], t)
     ELSE BcCleanup([Undelivered(s, c, f.msg)
                       EXCEPT !.task[t].frame.disconnected = Append(@, f.cur.k),
                              !.task[t].frame.tried = @ \cup {c}], t)

\* await connection.send_text(message) of broadcast_to_room is over: the
\* message went out, or the send raised and the user is listed in
\* `disconnected`; the loop goes on.
BcSent(s, t) ==
  LET f == s.task[t].frame
      c == f.cur.v
      s1 == IF CanSend(s, c)
            THEN [Deliver(s, c, f.msg)
                    EXCEPT !.task[t].frame.delivered = @ \cup {c},
                           !.task[t].frame.reached = @ \cup {f.cur.k}]
            ELSE [Undelivered(s, c, f.msg)
                    EXCEPT !.task[t].frame.disconnected = Append(@, f.cur.k)]
  IN BcAdvance([s1 EXCEPT !.task[t].frame.tried = @ \cup {c}], t)

\* Mutant: disconnect forgets `del self.user_to_room[websocket]`.
disconnect_keeps_reverse(s, t, caller) ==
  IF t \in DOMAIN s.user_to_room
  THEN LET room_id == s.user_to_room[t][1]
           user_id == s.user_to_room[t][2]
           s1 == IF room_id \in DOMAIN s.active_connections
                    /\ Has(s.active_connections[room_id], user_id)
                 THEN Touch([s EXCEPT !.active_connections[room_id] =
                                         Del(@, user_id)], room_id, t)
                 ELSE s
           s2 == [s1 EXCEPT !.task[t].n_user_left = @ + 1]
       IN broadcast_to_room(s2, t, Message("user-left", user_id, {}, FALSE),
                            room_id, user_id, caller)
  ELSE EndTask(s, t)

\* Mutant: disconnect does its work only while the websocket still has its
\* entry in active_connections[room_id].
disconnect_only_if_forward(s, t, caller) ==
  IF t \in DOMAIN s.user_to_room
     /\ s.user_to_room[t][1] \in DOMAIN s.active_connections
     /\ Has(s.active_connections[s.user_to_room[t][1]], s.user_to_room[t][2])
  THEN LET room_id == s.user_to_room[t][1]
           user_id == s.user_to_room[t][2]
           s1 == Touch([s EXCEPT !.active_connections[room_id] =
                                    Del(@, user_id)], room_id, t)
           s2 == [s1 EXCEPT !.user_to_room = DictDel(@, t),
                            !.task[t].n_user_left = @ + 1]
       IN broadcast_to_room(s2, t, Message("user-left", user_id, {}, FALSE),
                            room_id, user_id, caller)
  ELSE EndTask(s, t)

\* disconnect(websocket) up to its first await.  caller is "disconnect" for the
\* call of the endpoint's finally and "again" for a repeated call.
disconnect(s, t, caller) ==
  IF t \in DOMAIN s.user_to_room
  THEN LET room_id == s.user_to_room[t][1]
           user_id == s.user_to_room[t][2]
           s1 == IF room_id \in DOMAIN s.active_connections
                    /\ Has(s.active_connections[room_id], user_id)
                 THEN Touch([s EXCEPT !.active_connections[room_id] =
                                         Del(@, user_id)], room_id, t)
                 ELSE s
           s2 == [s1 EXCEPT !.user_to_room = DictDel(@, t),
                            !.task[t].n_user_left = @ + 1]
       IN broadcast_to_room(s2, t, Message("user-left", user_id, {}, FALSE),
                            room_id, user_id, caller)
  ELSE EndTask(s, t)

\* Mutant: existing_users without the test on active_connections[room_id].
ExistingUsers_registry_only(s, room_id, user_id) ==
  {p \in get_room_participants(s.participants, room_id) : p # user_id}

\* existing_users of connect: the persisted participants of the room, other
\* than the new user, that are in active_connections[room_id].
ExistingUsers(s, room_id, user_id) ==
  {p \in get_room_participants(s.participants, room_id) :
     p # user_id /\ Has(s.active_connections[room_id], p)}

\* connect, from the return of websocket.accept() to the send of room-joined.
Register(s, t) ==
  LET room_id == s.task[t].room_id
      user_id == s.task[t].user_id
      s1 == IF room_id \notin DOMAIN s.active_connections
            THEN [s EXCEPT !.active_connections = DictSet(@, room_id, <<>>)]
            ELSE s
      s2 == Touch([s1 EXCEPT !.active_connections[room_id] = Put(@, user_id, t),
                             !.user_to_room = DictSet(@, t, <<room_id, user_id>>)],
                  room_id, t)
  IN [s2 EXCEPT !.task[t].existing_users = ExistingUsers(s2, room_id, user_id),
                !.task[t].registered = TRUE,
                !.task[t].pc = "send_joined"]


\* ------------------------------------------------------------- recorder
\* An on_track handler that has not been started.
NoHandler == [pc |-> "idle", sid |-> 0, rid |-> 0]

\* RecorderSession.__init__: no peer connection, no recorder; out_file is the
\* path built from room_id, user_id and the creation time.
NewSession(key, n) ==
  [key |-> key, pc |-> 0, recorder |-> 0, recorder_started |-> FALSE,
   out_file |-> <<key[1], key[2], n>>]

\* The loop's bare except: the error envelope is sent next.
Except(s, t) ==
  [s EXCEPT !.task[t].pc = "send_error", !.task[t].why = "handler",
            !.task[t].sid = 0, !.task[t].pcref = 0, !.task[t].rid = 0,
            !.task[t].stop_ctx = "none"]

\* Mutant: _ensure_pc without its `if self.pc is not None: return`.
ensure_pc_always_new(s, sid) ==
  [s EXCEPT !.pcs = Append(@, [state |-> "open", remote |-> FALSE, sid |-> sid]),
            !.sess[sid].pc = Len(s.pcs) + 1]

\* RecorderSession._ensure_pc
ensure_pc(s, sid) ==
  IF s.sess[sid].pc # 0 THEN s
  ELSE [s EXCEPT !.pcs = Append(@, [state |-> "open", remote |-> FALSE, sid |-> sid]),
                 !.sess[sid].pc = Len(s.pcs) + 1]

\* RecorderManager.start_or_renegotiate and RecorderSession.start_or_renegotiate
\* up to await self.pc.setRemoteDescription(...), which raises at once on an
\* offer it cannot parse and on a closed peer connection.
start_or_renegotiate(s, t, room_id, user_id, sdp) ==
  LET key == <<room_id, user_id>>
      s1 == IF key \in DOMAIN s.sessions THEN s
            ELSE [s EXCEPT !.sess = Append(@, NewSession(key, Len(s.sess) + 1)),
                           !.sessions = DictSet(@, key, Len(s.sess) + 1)]
      sid == s1.sessions[key]
      s2 == ensure_pc(s1, sid)
      p == s2.sess[sid].pc
  IN IF sdp = "bad" \/ s2.pcs[p].state = "closed"
     THEN Except(s2, t)
     ELSE [s2 EXCEPT !.task[t].sid = sid, !.task[t].pcref = p,
                     !.task[t].pc = "rec_remote"]

\* RecorderSession.start_or_renegotiate reads self.pc again after an await:
\* AttributeError when stop has set it to None, else the next await.
NextOnPc(s, t, pc) ==
  LET sid == s.task[t].sid
  IN IF s.sess[sid].pc = 0 THEN Except(s, t)
     ELSE [s EXCEPT !.task[t].pcref = s.sess[sid].pc, !.task[t].pc = pc]

\* The endpoint's finally goes on after recorder.stop: manager.disconnect.
AfterStop(s, t) ==
  IF s.task[t].stop_ctx = "finally"
  THEN disconnect([s EXCEPT !.task[t].teardown = Append(@, "disconnect"),
                            !.task[t].sid = 0, !.task[t].pcref = 0,
                            !.task[t].rid = 0, !.task[t].stop_ctx = "none"],
                  t, "disconnect")
  ELSE [s EXCEPT !.task[t].pc = "rec_stopped", !.task[t].sid = 0,
                 !.task[t].pcref = 0, !.task[t].rid = 0,
                 !.task[t].stop_ctx = "none"]

\* Mutant: the finally without its try/except around recorder.stop.
StopRaised_not_caught(s, t) ==
  IF s.task[t].stop_ctx = "finally"
  THEN EndTask([s EXCEPT !.task[t].stop_failed = TRUE,
                         !.task[t].crashed = TRUE], t)
  ELSE Except(s, t)

\* recorder.stop raised (KeyError of del self.sessions[key]): the finally
\* swallows it (except Exception: pass); in the loop the bare except takes it.
StopRaised(s, t) ==
  IF s.task[t].stop_ctx = "finally"
  THEN AfterStop([s EXCEPT !.task[t].stop_failed = TRUE], t)
  ELSE Except(s, t)

\* RecorderSession.stop after its two awaits, and del self.sessions[key].
StopFinish(s, t) ==
  LET sid == s.task[t].sid
      key == s.sess[sid].key
      s1 == [s EXCEPT !.sess[sid].pc = 0, !.sess[sid].recorder = 0,
                      !.sess[sid].recorder_started = FALSE]
  IN IF key \in DOMAIN s1.sessions
     THEN AfterStop([s1 EXCEPT !.sessions = DictDel(@, key)], t)
     ELSE StopRaised(s1, t)

\* RecorderSession.stop from `if self.pc:` to await self.pc.close(); the peer
\* connection is closed from the call on.
StopClosePc(s, t) ==
  LET sid == s.task[t].sid
      p == s.sess[sid].pc
  IN IF p # 0
     THEN [s EXCEPT !.pcs[p].state = "closed",
                    !.task[t].pcref = p, !.task[t].rid = 0,
                    !.task[t].pc = "stop_pc"]
     ELSE StopFinish(s, t)

\* RecorderManager.stop up to the first await of RecorderSession.stop.
recorder_stop(s, t, room_id, user_id, ctx) ==
  LET key == <<room_id, user_id>>
      s1 == [s EXCEPT !.task[t].stop_ctx = ctx, !.task[t].stop_err = FALSE]
  IN IF key \notin DOMAIN s.sessions
     THEN AfterStop(s1, t)
     ELSE LET sid == s.sessions[key]
              s2 == [s1 EXCEPT !.task[t].sid = sid]
          IN IF s.sess[sid].recorder_started /\ s.sess[sid].recorder # 0
             THEN [s2 EXCEPT !.task[t].rid = s.sess[sid].recorder,
                             !.task[t].pc = "stop_rec"]
             ELSE StopClosePc(s2, t)

\* The finally of websocket_endpoint: recorder.stop, its error swallowed, then
\* manager.disconnect.
Finally(s, t) ==
  recorder_stop([s EXCEPT !.task[t].teardown = Append(@, "stop"),
                          !.task[t].sid = 0, !.task[t].pcref = 0,
                          !.task[t].rid = 0, !.task[t].why = "none"],
                t, s.task[t].room_id, s.task[t].user_id, "finally")

\* ------------------------------------------------------------ dispatcher
\* What a client may send: text that json.loads or message.get rejects, a
\* negotiation message (to_user 0: the field is missing), or a message of a
\* type the loop does not know.
ClientMessage(kind, to_user, sdp) ==
  [kind |-> kind, to_user |-> to_user, sdp |-> sdp, from_user |-> 0,
   audio_enabled |-> TRUE, video_enabled |-> TRUE]
\* A media-toggle message with the flags it carries (True when left out).
MediaToggle(audio_enabled, video_enabled) ==
  [ClientMessage("media-toggle", 0, "none")
     EXCEPT !.audio_enabled = audio_enabled, !.video_enabled = video_enabled]
MediaMessages == {MediaToggle(a, v) : a \in BOOLEAN, v \in BOOLEAN}
\* A negotiation message; from_user is what the client wrote in that field
\* (0: nothing).
Negotiation(to_user, from_user) ==
  [ClientMessage("negotiation", to_user, "none") EXCEPT !.from_user = from_user]
\* What a client writes as from_user: nothing, or the first user's identifier.
FromUsers == {0, 1}
ClientMessages ==
  {ClientMessage("malformed", 0, "none"), ClientMessage("other", 0, "none")}
  \cup {Negotiation(u, 0) : u \in UserIds \cup {0}}

\* The negotiation messages of clients that may lie about from_user.
NegotiationMessages ==
  {Negotiation(u, f) : u \in UserIds \cup {0}, f \in FromUsers}

\* The messages of a client that records: recorder-offer with an SDP the peer
\* connection accepts or rejects, and recorder-stop.
RecorderMessages ==
  {ClientMessage("recorder-offer", 0, "ok"),
   ClientMessage("recorder-offer", 0, "bad"),
   ClientMessage("recorder-stop", 0, "none")}

\* send_to_user up to its await: the target's websocket is looked up.
send_to_user(s, t, msg, room_id, target_user) ==
  IF room_id \in DOMAIN s.active_connections
     /\ Has(s.active_connections[room_id], target_user)
  THEN [s EXCEPT !.task[t].target =
                    [k |-> target_user,
                     v |-> Get(s.active_connections[room_id], target_user)],
                 !.task[t].out = msg,
                 !.task[t].pc = "unicast_send"]
  ELSE send_to_user_returns([s EXCEPT !.task[t].pc = "receive"], FALSE)

\* Mutant: the dispatcher keeps the from_user the client wrote.
attach_sender_trusts_client(m, user_id) ==
  IF m.from_user # 0 THEN m.from_user ELSE user_id

\* message["from_user"] = user_id
attach_sender(m, user_id) == user_id

\* Mutant: a text that does not parse is taken for a message of unknown type.
message_type_lenient(m) == IF m.kind = "malformed" THEN "other" ELSE m.kind

\* json.loads(data) and message.get("type", "unknown"): the message type, or
\* "raise" for a text that is not JSON or not a JSON object.
message_type(m) == IF m.kind = "malformed" THEN "raise" ELSE m.kind

\* One turn of the while loop, from the return of receive_text to the first
\* await of the branch taken.
Handle(s, t, m) ==
  LET room_id == s.task[t].room_id
      user_id == s.task[t].user_id
      s1 == [s EXCEPT !.task[t].why = "none", !.task[t].claimed = 0]
      kind == message_type(m)
  IN CASE kind = "raise" -> [s1 EXCEPT !.task[t].pc = "send_error",
                                       !.task[t].why = "malformed"]
       [] kind = "negotiation" ->
            IF m.to_user # 0
            THEN LET r == send_to_user(s1, t,
                            Message("negotiation", attach_sender(m, user_id),
                                    {}, FALSE),
                            room_id, m.to_user)
                 IN IF r.task[t].pc = "unicast_send"
                    THEN [r EXCEPT !.task[t].claimed = m.from_user]
                    ELSE r
            ELSE [s1 EXCEPT !.task[t].pc = "receive"]
       [] kind = "media-toggle" ->
            broadcast_to_room(
              [s1 EXCEPT !.participants =
                 update_media_status(@, room_id, user_id,
                                     m.audio_enabled, m.video_enabled)],
              t, MediaChanged(user_id, m.audio_enabled, m.video_enabled),
              room_id, user_id, "loop")
       [] kind = "recorder-offer" ->
            start_or_renegotiate(s1, t, room_id, user_id, m.sdp)
       [] kind = "recorder-stop" ->
            recorder_stop(s1, t, room_id, user_id, "loop")
       [] OTHER ->
            broadcast_to_room(s1, t, Message("other", user_id, {}, FALSE),
                              room_id, user_id, "loop")

\* ------------------------------------------------------------------- Init
Init ==
  /\ rooms = EmptyDict
  /\ participants = EmptyDict
  /\ next_room_id = 1
  /\ next_user_id = 1
  /\ ever_joined = {}
  /\ active_connections = EmptyDict
  /\ user_to_room = EmptyDict
  /\ ws = [t \in AllSockets |-> "new"]
  /\ close_code = [t \in AllSockets |-> 0]
  /\ wire = NoWire
  /\ task = [t \in Tasks |-> NoTask]
  /\ returned = NoReturn
  /\ sessions = EmptyDict
  /\ sess = <<>>
  /\ pcs = <<>>
  /\ recs = <<>>
  /\ trk = [h \in Tracks |-> NoHandler]

\* ------------------------------------------------- Registry operations
\* POST /api/rooms: create_room with a fresh identifier.
CreateRoom(cap) ==
  /\ next_room_id \in RoomIds
  /\ LET r == create_room(rooms, participants, next_room_id, cap)
     IN /\ rooms' = r.rooms
        /\ participants' = r.participants
  /\ next_room_id' = next_room_id + 1
  /\ UNCHANGED <<next_user_id, ever_joined, hubVars, ws, close_code, task, recVars>>
  /\ wire' = NoWire
  /\ returned' = NoReturn

\* POST /api/rooms/{room_id}/join: join_room with a fresh user identifier.
JoinRoom(room_id) ==
  /\ next_user_id \in UserIds
  /\ LET r == join_room(rooms, participants, room_id, next_user_id)
     IN /\ rooms' = r.rooms
        /\ participants' = r.participants
        /\ ever_joined' = IF r.status = 200 THEN ever_joined \cup {room_id}
                          ELSE ever_joined
        /\ next_user_id' = IF r.status = 200 THEN next_user_id + 1
                           ELSE next_user_id
  /\ UNCHANGED <<next_room_id, hubVars, ws, close_code, task, recVars>>
  /\ wire' = NoWire
  /\ returned' = NoReturn

\* leave_room called on the Registry directly.
LeaveRoom(room_id, user_id) ==
  /\ LET r == leave_room(rooms, participants, room_id, user_id)
     IN /\ rooms' = r.rooms
        /\ participants' = r.participants
  /\ UNCHANGED <<next_room_id, next_user_id, ever_joined, hubVars, ws, close_code, task, recVars>>
  /\ wire' = NoWire
  /\ returned' = NoReturn

\* The Registry alone, driven through its three writers by any caller.
NextRegistry ==
  \/ \E cap \in Capacities : CreateRoom(cap)
  \/ \E room_id \in RoomIds : JoinRoom(room_id)
  \/ \E room_id \in RoomIds, user_id \in UserIds : LeaveRoom(room_id, user_id)

SpecRegistry == Init /\ [][NextRegistry]_vars

\* GET /api/rooms/{room_id}: get_room and get_room_participants, read one
\* after the other with no await in between and no lock.
GetRoomInfo(room_id) ==
  /\ next_room_id > 1
  /\ Becomes([Here EXCEPT !.returned =
                [call |-> "get_room_info",
                 value |-> get_room_info(rooms, participants, room_id).status]])

\* The Registry with its writers and a reader.  No Registry method awaits and
\* every caller is a coroutine of the one event loop, so each call is one
\* step: a reader runs between two calls of the writers, never inside one.
NextReaders ==
  \/ \E cap \in Capacities : CreateRoom(cap)
  \/ \E room_id \in RoomIds : JoinRoom(room_id)
  \/ \E room_id \in RoomIds, user_id \in UserIds : LeaveRoom(room_id, user_id)
  \/ \E room_id \in RoomIds : GetRoomInfo(room_id)

SpecReaders == Init /\ [][NextReaders]_vars

\* ------------------------------------------------- websocket endpoint
\* Mutant: the endpoint calls connect without looking the user up.
Open_no_lookup(t, room_id, user_id) ==
  /\ task[t].pc = "idle"
  /\ \A x \in AllSockets : x < t => task[x].pc # "idle"
  /\ Becomes([Here EXCEPT !.task[t].room_id = room_id,
                          !.task[t].user_id = user_id,
                          !.task[t].pc = "accept"])

\* A client opens /ws/{room_id}/{user_id}: the endpoint looks the user up in
\* the Registry and either closes the websocket with 4004 or calls connect.
Open(t, room_id, user_id) ==
  /\ task[t].pc = "idle"
  /\ \A x \in AllSockets : x < t => task[x].pc # "idle"
  /\ LET s == [Here EXCEPT !.task[t].room_id = room_id,
                           !.task[t].user_id = user_id]
     IN Becomes(IF user_id \in get_room_participants(participants, room_id)
                THEN [s EXCEPT !.task[t].pc = "accept"]
                ELSE [s EXCEPT !.task[t].pc = "close4004"])

\* await websocket.close(code=4004) is over; return; finally.
Close4004(t) ==
  /\ task[t].pc = "close4004"
  /\ Becomes(Finally([Here EXCEPT !.close_code[t] = 4004,
                                  !.ws[t] = "closed",
                                  !.task[t].loop_end = "rejected"], t))

\* await websocket.accept() is over: the user is registered and room-joined
\* is built; or accept raised and the endpoint's finally runs.
Accept(t) ==
  /\ task[t].pc = "accept"
  /\ Becomes(IF ws[t] = "new"
             THEN Register([Here EXCEPT !.ws[t] = "open"], t)
             ELSE Finally([Here EXCEPT !.task[t].loop_end = "error"], t))

\* await websocket.send_text(room-joined) is over; new-user-joined is
\* broadcast when existing_users is not empty.
SendJoined(t) ==
  /\ task[t].pc = "send_joined"
  /\ LET e == task[t].existing_users
         joined == Message("room-joined", task[t].user_id, e, e = {})
     IN Becomes(
          IF ~CanSend(Here, t)
          THEN Finally([Undelivered(Here, t, joined)
                          EXCEPT !.task[t].loop_end = "error"], t)
          ELSE IF e # {}
          THEN broadcast_to_room(Deliver(Here, t, joined), t,
                 Message("new-user-joined", task[t].user_id, {}, FALSE),
                 task[t].room_id, task[t].user_id, "connect")
          ELSE ConnectReturn(Deliver(Here, t, joined), t))

\* await connection.send_text(message) inside broadcast_to_room is over.
BroadcastSend(t) ==
  /\ task[t].pc = "bc_send"
  /\ Becomes(BcSent(Here, t))

\* await websocket.receive_text() returns a text.  (A recorder-offer that
\* would create a session is taken while MaxSessions allows one more.)
Receive(t, m) ==
  /\ task[t].pc = "receive"
  /\ ws[t] = "open"
  /\ m.kind = "recorder-offer" =>
        \/ <<task[t].room_id, task[t].user_id>> \in DOMAIN sessions
        \/ Len(sess) < MaxSessions
  /\ Becomes(Handle(Here, t, m))

\* await websocket.receive_text() raises WebSocketDisconnect.
ReceiveClosed(t) ==
  /\ task[t].pc = "receive"
  /\ ws[t] # "open"
  /\ Becomes(Finally([Here EXCEPT !.task[t].loop_end = "closed"], t))

\* The task is cancelled while it waits at an await that no inner try guards:
\* receive_text, the send of the error envelope, or an await of connect.
\* CancelledError leaves the endpoint's try and the finally runs.  (A task is
\* cancelled once, and before its finally has begun.)
Cancel(t) ==
  /\ \/ task[t].pc \in {"receive", "send_error", "accept", "send_joined"}
     \/ task[t].pc = "bc_send" /\ task[t].frame.caller = "connect"
  /\ Becomes(Finally([Here EXCEPT !.task[t].loop_end = "cancelled",
                                  !.task[t].existing_users = {},
                                  !.task[t].frame = NoFrame], t))

\* await ...send_text(message) inside send_to_user is over; on an error the
\* target is deleted from the room's dict (KeyError when it is not there).
UnicastSend(t) ==
  /\ task[t].pc = "unicast_send"
  /\ LET room_id == task[t].room_id
         tg == task[t].target
         msg == task[t].out
     IN Becomes(
          IF CanSend(Here, tg.v)
          THEN send_to_user_returns(
                 [Deliver(Here, tg.v, msg) EXCEPT !.task[t].pc = "receive",
                                                  !.task[t].out = NoMessage,
                                                  !.task[t].target = Hole], TRUE)
          ELSE IF room_id \in DOMAIN active_connections
                  /\ Has(active_connections[room_id], tg.k)
          THEN send_to_user_returns(
                 Touch([MarkEvicted(Undelivered(Here, tg.v, msg), room_id, {tg.k})
                          EXCEPT !.active_connections[room_id] = Del(@, tg.k),
                                 !.task[t].pc = "receive",
                                 !.task[t].out = NoMessage,
                                 !.task[t].target = Hole], room_id, t), FALSE)
          ELSE [Undelivered(Here, tg.v, msg)
                  EXCEPT !.task[t].pc = "send_error", !.task[t].why = "handler",
                         !.task[t].out = NoMessage,
                         !.task[t].target = Hole])

\* await websocket.send_text(error envelope) in the loop's bare except is
\* over; when it raised, the error leaves the loop and finally runs.
SendError(t) ==
  /\ task[t].pc = "send_error"
  /\ Becomes(
       IF CanSend(Here, t)
       THEN [Deliver(Here, t, Message("error", 0, {}, FALSE))
               EXCEPT !.task[t].pc = "receive"]
       ELSE Finally([Undelivered(Here, t, Message("error", 0, {}, FALSE))
                       EXCEPT !.task[t].loop_end = "error"], t))

\* await self.pc.setRemoteDescription(...) is over.
RecRemote(t) ==
  /\ task[t].pc = "rec_remote"
  /\ LET p == task[t].pcref
     IN Becomes(IF pcs[p].state = "closed" THEN Except(Here, t)
                ELSE NextOnPc([Here EXCEPT !.pcs[p].remote = TRUE], t, "rec_answer"))

\* await self.pc.createAnswer() is over.
RecAnswer(t) ==
  /\ task[t].pc = "rec_answer"
  /\ Becomes(IF pcs[task[t].pcref].state = "closed" THEN Except(Here, t)
             ELSE NextOnPc(Here, t, "rec_local"))

\* await self.pc.setLocalDescription(answer) is over; the answer is read from
\* self.pc and returned to the loop, which sends recorder-answer.
RecLocal(t) ==
  /\ task[t].pc = "rec_local"
  /\ Becomes(IF pcs[task[t].pcref].state = "closed" THEN Except(Here, t)
             ELSE NextOnPc(Here, t, "rec_reply"))

\* await websocket.send_text(recorder-answer) is over.
RecReply(t) ==
  /\ task[t].pc = "rec_reply"
  /\ LET msg == Message("recorder-answer", 0, {}, FALSE)
     IN Becomes(IF CanSend(Here, t)
                THEN [Deliver(Here, t, msg) EXCEPT !.task[t].pc = "receive",
                        !.task[t].sid = 0, !.task[t].pcref = 0]
                ELSE Except(Undelivered(Here, t, msg), t))

\* await self.recorder.stop() of RecorderSession.stop is over.
StopRec(t) ==
  /\ task[t].pc = "stop_rec"
  /\ Becomes(StopClosePc([Here EXCEPT !.recs[task[t].rid].running = FALSE], t))

\* await self.pc.close() of RecorderSession.stop is over.
StopPc(t) ==
  /\ task[t].pc = "stop_pc"
  /\ Becomes(StopFinish(Here, t))

\* Mutant: RecorderSession.stop without its try/except blocks: the error of
\* recorder.stop() or pc.close() leaves Stop, the session stays as it is.
StopStepRaised_propagates(s, t) ==
  StopRaised([s EXCEPT !.task[t].stop_err = TRUE], t)

\* `except Exception as e: logger.warning(...)` of RecorderSession.stop: the
\* error of recorder.stop() or of pc.close() is logged and stop goes on.
StopStepRaised(s, t) == [s EXCEPT !.task[t].stop_err = TRUE]

\* await self.recorder.stop() raised (the recorder is left as it is).
StopRecFails(t) ==
  /\ task[t].pc = "stop_rec"
  /\ LET s == StopStepRaised(Here, t)
     IN Becomes(IF s.task[t].pc = "stop_rec" THEN StopClosePc(s, t) ELSE s)

\* await self.pc.close() raised.
StopPcFails(t) ==
  /\ task[t].pc = "stop_pc"
  /\ LET s == StopStepRaised(Here, t)
     IN Becomes(IF s.task[t].pc = "stop_pc" THEN StopFinish(s, t) ELSE s)

\* await websocket.send_text(recorder-stopped) is over.
RecStopped(t) ==
  /\ task[t].pc = "rec_stopped"
  /\ LET msg == Message("recorder-stopped", 0, {}, FALSE)
     IN Becomes(IF CanSend(Here, t)
                THEN [Deliver(Here, t, msg) EXCEPT !.task[t].pc = "receive"]
                ELSE Except(Undelivered(Here, t, msg), t))

\* The peer connection p delivers a track: on_track up to await
\* self.recorder.start(), or to its end when the recorder is started.
TrackArrives(h, p) ==
  /\ trk[h].pc = "idle"
  /\ \A x \in Tracks : x < h => trk[x].pc # "idle"
  /\ p \in DOMAIN pcs
  /\ pcs[p].remote
  /\ pcs[p].state = "open"
  /\ LET sid == pcs[p].sid
         s1 == IF sess[sid].recorder = 0
               THEN [Here EXCEPT
                       !.recs = Append(@, [starts |-> 0, running |-> FALSE,
                                           sid |-> sid, tracks |-> 0]),
                       !.sess[sid].recorder = Len(recs) + 1]
               ELSE Here
         r == s1.sess[sid].recorder
         s2 == [s1 EXCEPT !.recs[r].tracks = @ + 1]
     IN Becomes(IF ~sess[sid].recorder_started
                THEN [s2 EXCEPT !.trk[h] = [pc |-> "start", sid |-> sid, rid |-> r]]
                ELSE [s2 EXCEPT !.trk[h] = [pc |-> "done", sid |-> 0, rid |-> 0]])

\* await self.recorder.start() of on_track is over.
TrackStarted(h) ==
  /\ trk[h].pc = "start"
  /\ Becomes([Here EXCEPT !.recs[trk[h].rid].starts = @ + 1,
                          !.recs[trk[h].rid].running = TRUE,
                          !.sess[trk[h].sid].recorder_started = TRUE,
                          !.trk[h] = [pc |-> "done", sid |-> 0, rid |-> 0]])

\* disconnect(websocket) called once more on a websocket whose endpoint is over.
DisconnectAgain(t) ==
  /\ task[t].pc = "done"
  /\ ~task[t].again
  /\ Becomes(disconnect([Here EXCEPT !.task[t].again = TRUE], t, "again"))

\* The client of an open or connecting websocket goes away.
ClientDrop(t) ==
  /\ task[t].pc \notin {"idle", "done"}
  /\ ws[t] \in {"new", "open"}
  /\ ws' = [ws EXCEPT ![t] = "gone"]
  /\ wire' = NoWire
  /\ returned' = NoReturn
  /\ UNCHANGED <<regVars, idVars, hubVars, close_code, task, recVars>>

Next ==
  \/ CreateRoom(DefaultCapacity)
  \/ \E room_id \in RoomIds : JoinRoom(room_id)
  \/ \E t \in Sockets, room_id \in RoomIds, user_id \in UserIds :
       Open(t, room_id, user_id)
  \/ \E t \in Sockets : Close4004(t)
  \/ \E t \in Sockets : Accept(t)
  \/ \E t \in Sockets : SendJoined(t)
  \/ \E t \in Sockets : BroadcastSend(t)
  \/ \E t \in Sockets, m \in ClientMessages : Receive(t, m)
  \/ \E t \in Sockets : ReceiveClosed(t)
  \/ \E t \in Sockets : Cancel(t)
  \/ \E t \in Sockets : UnicastSend(t)
  \/ \E t \in Sockets : SendError(t)
  \/ \E t \in Sockets : DisconnectAgain(t)
  \/ \E t \in Sockets : ClientDrop(t)

Spec == Init /\ [][Next]_vars

\* No websocket has been opened yet.
AllIdle == \A x \in AllSockets : task[x].pc = "idle"

\* One room whose members all connect, member t on websocket t, and talk to
\* the room; clients come and go.
NextRoom ==
  \/ AllIdle /\ next_room_id = 1 /\ CreateRoom(DefaultCapacity)
  \/ AllIdle /\ JoinRoom(1)
  \/ \E t \in Members : Open(t, 1, t)
  \/ \E t \in Members : Accept(t)
  \/ \E t \in Members : SendJoined(t)
  \/ \E t \in Members : BroadcastSend(t)
  \/ \E t \in Members : Receive(t, ClientMessage("other", 0, "none"))
  \/ \E t \in Members : ReceiveClosed(t)
  \/ \E t \in Members : ClientDrop(t)

SpecRoom == Init /\ [][NextRoom]_vars

\* One room and one participant, whose websockets (a client that connects
\* again, a second tab) record: recorder-offer, recorder-stop, tracks.
NextRec ==
  \/ AllIdle /\ next_room_id = 1 /\ CreateRoom(DefaultCapacity)
  \/ AllIdle /\ next_user_id = 1 /\ JoinRoom(1)
  \/ \E t \in Sockets : Open(t, 1, 1)
  \/ \E t \in Sockets : Accept(t)
  \/ \E t \in Sockets : SendJoined(t)
  \/ \E t \in Sockets, m \in RecorderMessages : Receive(t, m)
  \/ \E t \in Sockets : RecRemote(t)
  \/ \E t \in Sockets : RecAnswer(t)
  \/ \E t \in Sockets : RecLocal(t)
  \/ \E t \in Sockets : RecReply(t)
  \/ \E t \in Sockets : StopRec(t)
  \/ \E t \in Sockets : StopPc(t)
  \/ \E t \in Sockets : RecStopped(t)
  \/ \E h \in Tracks, p \in 1..MaxSessions : TrackArrives(h, p)
  \/ \E h \in Tracks : TrackStarted(h)
  \/ \E t \in Sockets : ReceiveClosed(t)
  \/ \E t \in Sockets : Cancel(t)
  \/ \E t \in Sockets : SendError(t)
  \/ \E t \in Sockets : ClientDrop(t)

SpecRec == Init /\ [][NextRec]_vars

\* One participant whose websockets record and stop, with a recorder and a
\* peer connection whose stop() and close() may raise.
NextStop ==
  \/ AllIdle /\ next_room_id = 1 /\ CreateRoom(DefaultCapacity)
  \/ AllIdle /\ next_user_id = 1 /\ JoinRoom(1)
  \/ \E t \in Sockets : Open(t, 1, 1)
  \/ \E t \in Sockets : Accept(t)
  \/ \E t \in Sockets : SendJoined(t)
  \/ \E t \in Sockets :
       Receive(t, ClientMessage("recorder-offer", 0, "ok"))
  \/ \E t \in Sockets :
       Receive(t, ClientMessage("recorder-stop", 0, "none"))
  \/ \E t \in Sockets : RecRemote(t)
  \/ \E t \in Sockets : RecAnswer(t)
  \/ \E t \in Sockets : RecLocal(t)
  \/ \E t \in Sockets : RecReply(t)
  \/ \E t \in Sockets : StopRec(t)
  \/ \E t \in Sockets : StopRecFails(t)
  \/ \E t \in Sockets : StopPc(t)
  \/ \E t \in Sockets : StopPcFails(t)
  \/ \E t \in Sockets : RecStopped(t)
  \/ \E p \in 1..MaxSessions : TrackArrives(1, p)
  \/ TrackStarted(1)
  \/ \E t \in Sockets : ReceiveClosed(t)
  \/ \E t \in Sockets : SendError(t)
  \/ \E t \in Sockets : ClientDrop(t)

SpecStop == Init /\ [][NextStop]_vars

\* rooms_endpoint.py builds a ConnectionManager of its own (lines 11-12), an
\* object other than the one websocket_routes_endpoint.py registers websockets
\* in.  No code calls connect on it, so its dicts stay as __init__ made them.
rooms_manager == [active_connections |-> EmptyDict, user_to_room |-> EmptyDict]

\* DELETE /api/rooms/{room_id}: end_room of rooms_endpoint.py.  room_id is not
\* in its manager's active_connections (which holds no room at all), so the
\* broadcast, the closes and the del are skipped and the response is returned.
EndRoom(room_id) ==
  /\ room_id \notin DOMAIN rooms_manager.active_connections
  /\ Becomes([Here EXCEPT !.returned =
                [call |-> "end_room", value |-> "Room ended successfully"]])

\* DELETE /api/rooms/{room_id} of main.py, whose manager is the one the
\* websocket endpoint of main.py registers in: end_room up to the first await
\* of its broadcast of room-ended.
MainEndRoom(room_id) ==
  /\ task[Host].pc = "idle"
  /\ Becomes(
       IF room_id \notin DOMAIN active_connections
       THEN [Here EXCEPT !.task[Host].pc = "ended",
                         !.returned = [call |-> "end_room",
                                       value |-> "Room ended successfully"]]
       ELSE broadcast_to_room([Here EXCEPT !.task[Host].room_id = room_id],
              Host, Message("room-ended", 0, {}, FALSE), room_id, 0,
              "end_room"))

\* await connection.close() of end_room is over (an error of close is
\* swallowed by the bare except); the next websocket is closed, or the
\* room's dict is deleted.
MainEndClosed ==
  /\ task[Host].pc = "end_close"
  /\ Becomes(end_room_close(
               [Here EXCEPT !.task[Host].connections = Tail(@)], Host))

\* No connect is in progress.
Settled ==
  \A t \in Sockets :
    /\ task[t].pc \notin {"accept", "send_joined"}
    /\ task[t].frame.caller # "connect"

\* main.py: one room whose members connect, member t on websocket t; when
\* their connects are over the host ends the room, clients go away, and the
\* loops of the members see their websockets closed and disconnect.  (On
\* these paths websocket_endpoint of main.py does what the endpoint of
\* websocket_routes_endpoint.py does: WebSocketDisconnect leads to
\* manager.disconnect; no recorder session exists.)
NextMain ==
  \/ AllIdle /\ next_room_id = 1 /\ CreateRoom(DefaultCapacity)
  \/ AllIdle /\ JoinRoom(1)
  \/ \E t \in Sockets : task[Host].pc = "idle" /\ Open(t, 1, t)
  \/ \E t \in Sockets : Accept(t)
  \/ \E t \in Sockets : SendJoined(t)
  \/ \E t \in Sockets \cup {Host} : BroadcastSend(t)
  \/ \E t \in Sockets : Settled /\ ReceiveClosed(t)
  \/ \E t \in Sockets : Settled /\ task[t].pc = "receive" /\ ClientDrop(t)
  \/ Settled /\ MainEndRoom(1)
  \/ MainEndClosed

SpecMain == Init /\ [][NextMain]_vars

\* One room whose participants connect and leave while the host ends rooms.
NextEnd ==
  \/ AllIdle /\ next_room_id = 1 /\ CreateRoom(DefaultCapacity)
  \/ JoinRoom(1)
  \/ \E t \in Sockets, user_id \in UserIds : Open(t, 1, user_id)
  \/ \E t \in Sockets : Accept(t)
  \/ \E t \in Sockets : SendJoined(t)
  \/ \E t \in Sockets : BroadcastSend(t)
  \/ \E t \in Sockets : ReceiveClosed(t)
  \/ \E t \in Sockets : ClientDrop(t)
  \/ \E room_id \in RoomIds : EndRoom(room_id)

SpecEnd == Init /\ [][NextEnd]_vars

\* One room whose members, member t on websocket t, switch their microphones
\* and cameras on and off while clients come and go.
NextMedia ==
  \/ AllIdle /\ next_room_id = 1 /\ CreateRoom(DefaultCapacity)
  \/ AllIdle /\ JoinRoom(1)
  \/ \E t \in Sockets : Open(t, 1, t)
  \/ \E t \in Sockets : Accept(t)
  \/ \E t \in Sockets : SendJoined(t)
  \/ \E t \in Sockets : BroadcastSend(t)
  \/ \E t \in Sockets, m \in MediaMessages : Receive(t, m)
  \/ \E t \in Sockets : ReceiveClosed(t)
  \/ \E t \in Sockets : SendError(t)
  \/ \E t \in Sockets : ClientDrop(t)

SpecMedia == Init /\ [][NextMedia]_vars

\* Rooms whose members negotiate: offers, answers and candidates addressed to
\* any user identifier, with any from_user, while clients come and go.
NextSignal ==
  \/ CreateRoom(DefaultCapacity)
  \/ \E room_id \in RoomIds : JoinRoom(room_id)
  \/ \E t \in Sockets, room_id \in RoomIds, user_id \in UserIds :
       Open(t, room_id, user_id)
  \/ \E t \in Sockets : Close4004(t)
  \/ \E t \in Sockets : Accept(t)
  \/ \E t \in Sockets : SendJoined(t)
  \/ \E t \in Sockets : BroadcastSend(t)
  \/ \E t \in Sockets, m \in NegotiationMessages : Receive(t, m)
  \/ \E t \in Sockets : ReceiveClosed(t)
  \/ \E t \in Sockets : UnicastSend(t)
  \/ \E t \in Sockets : SendError(t)
  \/ \E t \in Sockets : ClientDrop(t)

SpecSignal == Init /\ [][NextSignal]_vars

\* ============================================================ properties
\* Rooms created so far.
Created == 1..(next_room_id - 1)

\* C1: for every room that exists, the stored current_participants count
\* equals the number of entries in the room's participant set, after any
\* sequence of CreateRoom, JoinRoom and LeaveRoom.
C1_CountIsParticipants ==
  \A r \in DOMAIN rooms :
    /\ r \in DOMAIN participants
    /\ rooms[r].current_participants = Cardinality(DOMAIN participants[r])

\* A room that two users joined and one of them left.
C1_Witness ==
  /\ next_room_id = 2
  /\ next_user_id = 3
  /\ 1 \in DOMAIN rooms
  /\ rooms[1].current_participants = 1

\* C6 (states): a created room exists while a participant remains in it or
\* while no participant ever joined it.
C6_Exists ==
  \A r \in Created :
    \/ r \in DOMAIN rooms
    \/ /\ r \in ever_joined
       /\ r \notin DOMAIN participants

\* C6 (steps): a room leaves the Registry only in a step that removes its last
\* participant, and the step that removes the last participant of a room
\* removes the room and its participant set.
C6_Step ==
  \A r \in Created :
    LET last == /\ r \in DOMAIN participants
                /\ Cardinality(DOMAIN participants[r]) = 1
                /\ r \in DOMAIN participants' => participants'[r] = EmptyDict
    IN /\ (r \in DOMAIN rooms /\ r \notin DOMAIN rooms') => last
       /\ (r \in DOMAIN rooms /\ last) =>
             (r \notin DOMAIN rooms' /\ r \notin DOMAIN participants')

\* C6: a room's entry and its participant set are deleted by exactly the
\* LeaveRoom that brings its participant count to zero, never before.
C6_DeletedAtZero == []C6_Exists /\ [][C6_Step]_vars

\* A room that was joined and whose last participant has left: it is gone.
C6_Witness ==
  \E r \in Created :
    /\ r \in ever_joined
    /\ r \notin DOMAIN rooms
    /\ r \notin DOMAIN participants

\* The (participant, websocket) entries of the forward index for room r.
ForwardOf(r) == Items(active_connections[r])

\* C2: the forward index (room, participant) -> websocket and the reverse
\* index websocket -> (room, participant) are exact inverses of each other in
\* every reachable state of the Hub.
C2_IndicesInverse ==
  /\ \A w \in DOMAIN user_to_room :
       LET r == user_to_room[w][1]
           u == user_to_room[w][2]
       IN r \in DOMAIN active_connections /\ <<u, w>> \in ForwardOf(r)
  /\ \A r \in DOMAIN active_connections :
       \A it \in ForwardOf(r) :
         it[2] \in DOMAIN user_to_room /\ user_to_room[it[2]] = <<r, it[1]>>

\* C3 (steps): a websocket opened for a (room, participant) pair the Registry
\* does not hold goes to the close with 4004, and neither the opening nor the
\* close with the teardown after it changes the Hub or the Registry.
C3_Step ==
  \A t \in Sockets :
    /\ \A r \in RoomIds, u \in UserIds :
         (Open(t, r, u) /\ u \notin get_room_participants(participants, r)) =>
            /\ task'[t].pc = "close4004"
            /\ UNCHANGED <<hubVars, regVars>>
    /\ Close4004(t) =>
         /\ close_code'[t] = 4004
         /\ task'[t].pc = "done"
         /\ task'[t].teardown = <<"stop", "disconnect">>
         /\ UNCHANGED <<hubVars, regVars>>

\* C3 (states): the rejected websocket is in neither index of the Hub.
C3_NotInHub ==
  \A t \in Sockets :
    (task[t].pc = "close4004" \/ task[t].loop_end = "rejected") =>
       /\ t \notin DOMAIN user_to_room
       /\ \A r \in DOMAIN active_connections :
            t \notin Values(active_connections[r])

\* C3: a websocket opened for a (room, participant) pair that the Registry
\* does not contain is closed with 4004, is never in the Hub's indices, and
\* leaves Hub and Registry unchanged, the teardown included.
C3_Rejected == []C3_NotInHub /\ [][C3_Step]_vars

\* A websocket was rejected and torn down while another one is registered.
C3_Witness ==
  \E t \in Sockets :
    /\ task[t].pc = "done"
    /\ task[t].loop_end = "rejected"
    /\ close_code[t] = 4004
    /\ user_to_room # EmptyDict

\* C4 (steps): a second disconnect on a websocket changes neither the Hub nor
\* the Registry, sends nothing, broadcasts nothing and calls no leave_room.
C4_Step ==
  \A t \in Sockets :
    DisconnectAgain(t) =>
       /\ UNCHANGED <<hubVars, regVars>>
       /\ wire' = NoWire
       /\ task'[t].pc = "done"
       /\ task'[t].n_user_left = task[t].n_user_left
       /\ task'[t].n_leave = task[t].n_leave

\* C4 (states): over the disconnect calls on a websocket at most one user-left
\* broadcast is made and at most one leave_room; for a websocket that was
\* registered and whose first disconnect has returned, exactly one of each,
\* and none for a websocket that was never registered.
C4_Once ==
  \A t \in Sockets :
    /\ task[t].n_user_left <= 1
    /\ task[t].n_leave <= 1
    /\ (task[t].pc = "done" /\ ~task[t].crashed /\ task[t].registered) =>
         (task[t].n_user_left = 1 /\ task[t].n_leave = 1)
    /\ ~task[t].registered =>
         (task[t].n_user_left = 0 /\ task[t].n_leave = 0)

C7_Step ==
  \A t \in Sockets :
    /\ (Accept(t) /\ task'[t].pc = "send_joined") =>
          task'[t].existing_users =
            {p \in UserIds :
               /\ p # task[t].user_id
               /\ task[t].room_id \in DOMAIN participants'
               /\ p \in DOMAIN participants'[task[t].room_id]
               /\ task[t].room_id \in DOMAIN active_connections'
               /\ p \in Keys(active_connections'[task[t].room_id])}
    /\ (SendJoined(t) /\ wire'.ok) =>
          /\ wire'.to = t
          /\ wire'.msg = Message("room-joined", task[t].user_id,
                                 task[t].existing_users,
                                 task[t].existing_users = {})
    /\ (task[t].connect_ret = -1 /\ task'[t].connect_ret # -1) =>
          task'[t].connect_ret = Cardinality(task[t].existing_users)

\* C7: room-joined lists exactly the other participants of the room that are
\* in the Registry and in the Hub when P is registered, is_initiator is true
\* iff the list is empty, and connect returns the size of the list.
C7_RoomJoined == [][C7_Step]_vars

\* connect has returned 1 in a room that has a participant who is not connected.
C7_Witness ==
  \E t \in Sockets :
    /\ task[t].pc = "receive"
    /\ task[t].connect_ret = 1
    /\ task[t].room_id \in DOMAIN participants
    /\ Cardinality(DOMAIN participants[task[t].room_id]) = 3

\* C9 (steps): a text that does not parse changes nothing and sends nothing to
\* anyone; the loop's except then sends one error envelope to the sender,
\* changes nothing, and the loop receives again.
C9_Step ==
  \A t \in Sockets :
    /\ Receive(t, ClientMessage("malformed", 0, "none")) =>
          /\ task'[t].pc = "send_error"
          /\ task'[t].why = "malformed"
          /\ wire' = NoWire
          /\ UNCHANGED <<hubVars, regVars, recVars>>
    /\ (SendError(t) /\ task[t].why = "malformed" /\ ws[t] = "open") =>
          /\ wire' = [to |-> t, msg |-> Message("error", 0, {}, FALSE), ok |-> TRUE]
          /\ task'[t].pc = "receive"
          /\ UNCHANGED <<hubVars, regVars, recVars>>

\* C9: a received text that is not a typed JSON envelope yields exactly one
\* error envelope, sent to the sender (whose websocket is open), no message to
\* any other websocket, no change of Hub, Registry or recorder state, and the
\* loop receives the next message.
C9_Malformed == [][C9_Step]_vars

\* The error envelope went to the sender of a malformed text, in a room where
\* another websocket is connected, and the sender's loop receives again.
C9_Witness ==
  \E t \in Sockets :
    /\ wire = [to |-> t, msg |-> Message("error", 0, {}, FALSE), ok |-> TRUE]
    /\ task[t].pc = "receive"
    /\ task[t].why = "malformed"
    /\ \E x \in Sockets \ {t} :
         /\ task[x].pc = "receive"
         /\ task[x].room_id = task[t].room_id

\* The websockets a broadcast with frame f is to reach: those of the room's
\* dict at the call, the excluded user's left out.
Recipients(f) == {it[2] : it \in {x \in f.start : x[1] # f.exclude}}

\* The websockets of the users in seq.
RECURSIVE SocketsOf(_, _)
SocketsOf(f, seq) ==
  IF seq = <<>> THEN {}
  ELSE {it[2] : it \in {x \in f.start : x[1] = Head(seq)}}
       \cup SocketsOf(f, Tail(seq))

\* C5 (steps): a broadcast that no other task's change of the room's dict has
\* met sends to websockets of the room's dict other than the excluded user's,
\* to each once, and ends by returning to its caller, having tried every such
\* websocket and delivered to each whose send did not fail.
C5_Step ==
  \A t \in Members :
    BroadcastSend(t) =>
      LET f == task[t].frame
          c == f.cur.v
          failed == SocketsOf(f, f.disconnected) \cup (IF wire'.ok THEN {} ELSE {c})
      IN /\ wire'.to = c
         /\ wire'.msg = f.msg
         /\ ~f.disturbed =>
              /\ f.room \in DOMAIN active_connections
              /\ Items(active_connections[f.room]) = f.start
              /\ c \in Recipients(f)
              /\ c \notin f.tried
              /\ ~task'[t].frame.active =>
                   /\ f.tried \cup {c} = Recipients(f)
                   /\ (f.delivered \cup (IF wire'.ok THEN {c} ELSE {}))
                        = Recipients(f) \ failed
                   /\ ~task'[t].crashed
                   /\ task'[t].why = task[t].why
                   /\ task'[t].loop_end = task[t].loop_end
                   /\ task'[t].pc = IF f.caller = "disconnect" THEN "done"
                                    ELSE "receive"

InStop(t) == task[t].pc \in {"stop_rec", "stop_pc"} /\ task[t].stop_ctx = "finally"
InDisconnect(t) == task[t].pc = "bc_send" /\ task[t].frame.caller = "disconnect"

\* C8 (states): the calls an endpoint's finally has made are none while its
\* loop runs, recorder.stop alone while that call is suspended, and
\* recorder.stop followed by manager.disconnect from then on, also when
\* recorder.stop raised; an endpoint is over only after both.
C8_Order ==
  \A t \in Sockets :
    /\ task[t].teardown \in {<<>>, <<"stop">>, <<"stop", "disconnect">>}
    /\ (task[t].teardown = <<>>) <=> (task[t].loop_end = "none")
    /\ (task[t].teardown = <<"stop">>) <=> InStop(t)
    /\ (task[t].teardown = <<"stop", "disconnect">>) <=>
          (InDisconnect(t) \/ task[t].pc = "done")
    /\ task[t].stop_failed => task[t].teardown = <<"stop", "disconnect">>

\* C8 (steps): what the finally has called is never taken back, and a loop
\* that ends, however it ends, calls recorder.stop in the same step.
C8_Step ==
  \A t \in Sockets :
    /\ Len(task'[t].teardown) >= Len(task[t].teardown)
    /\ (ReceiveClosed(t) \/ Cancel(t) \/ (SendError(t) /\ ws[t] # "open")) =>
          /\ task[t].teardown = <<>>
          /\ Len(task'[t].teardown) >= 1
          /\ task'[t].teardown[1] = "stop"

NoStopOn(sid) ==
  \A x \in Sockets : task[x].stop_ctx = "none" \/ task[x].sid # sid

\* C10 (steps): a start_or_renegotiate for a key that has a session, hence
\* after an earlier call and with no stop since, creates no session, no peer
\* connection and no recorder, and leaves the key's session with its output
\* path, its peer connection and its recorder; a session keeps its output path,
\* and its peer connection and recorder while it has them.
C10_Step ==
  /\ \A t \in Sockets, m \in RecorderMessages :
       LET key == <<task[t].room_id, task[t].user_id>>
       IN (Receive(t, m) /\ m.kind = "recorder-offer" /\ key \in DOMAIN sessions
             /\ NoStopOn(sessions[key])) =>
            LET sid == sessions[key]
            IN /\ sessions' = sessions
               /\ Len(sess') = Len(sess)
               /\ Len(pcs') = Len(pcs)
               /\ Len(recs') = Len(recs)
               /\ sess[sid].pc # 0
               /\ sess'[sid] = sess[sid]
               /\ task'[t].pc = "rec_remote" =>
                    (task'[t].sid = sid /\ task'[t].pcref = sess[sid].pc)
  /\ \A sid \in DOMAIN sess :
       /\ sess'[sid].out_file = sess[sid].out_file
       /\ (sess[sid].pc # 0 /\ sess'[sid].pc # 0) => sess'[sid].pc = sess[sid].pc
       /\ (sess[sid].recorder # 0 /\ sess'[sid].recorder # 0) =>
             sess'[sid].recorder = sess[sid].recorder

\* C10 (states): no session has a second peer connection or a second recorder.
C10_NoSecond ==
  \A sid \in DOMAIN sess :
    /\ Cardinality({p \in DOMAIN pcs : pcs[p].sid = sid}) <= 1
    /\ Cardinality({r \in DOMAIN recs : recs[r].sid = sid}) <= 1

\* C10: two start_or_renegotiate calls in sequence for one key, with no stop
\* between them, use the same session: the same output path, the same peer
\* connection and, once there is a recorder, the same recorder; no second
\* session, peer connection or recorder is created for the key.
C10_Renegotiate == []C10_NoSecond /\ [][C10_Step]_vars

\* A second start_or_renegotiate is under way, and no other recorder call, on
\* a session whose peer connection has taken an earlier offer and whose
\* recorder runs.
C10_Witness ==
  \E t \in Sockets :
    /\ task[t].pc = "rec_remote"
    /\ task[t].sid \in DOMAIN sess
    /\ sess[task[t].sid].pc = task[t].pcref
    /\ pcs[task[t].pcref].remote
    /\ sess[task[t].sid].recorder # 0
    /\ sess[task[t].sid].recorder_started
    /\ Len(sess) = 1 /\ Len(pcs) = 1 /\ Len(recs) = 1
    /\ \A x \in Sockets \ {t} : task[x].sid = 0

\* The recorder key of the task of websocket t.
KeyOf(t) == <<task[t].room_id, task[t].user_id>>

\* C11 (steps): a recorder.stop on a key that has no session changes no
\* recorder state and returns to its caller (the loop sends recorder-stopped,
\* the finally goes on); and no recorder.stop raises: not the one of a finally
\* and not the one of the loop, whose await of the recorder or of the peer
\* connection ends with the return to the loop.
C11_Step ==
  \A t \in Sockets :
    /\ (Receive(t, ClientMessage("recorder-stop", 0, "none"))
          /\ KeyOf(t) \notin DOMAIN sessions) =>
         /\ UNCHANGED recVars
         /\ task'[t].pc = "rec_stopped"
    /\ (ReceiveClosed(t) /\ KeyOf(t) \notin DOMAIN sessions) =>
         /\ UNCHANGED recVars
         /\ ~task'[t].stop_failed
    /\ task'[t].stop_failed => task[t].stop_failed
    /\ ((StopRec(t) \/ StopPc(t)) /\ task[t].stop_ctx = "loop") =>
         task'[t].pc \in {"stop_pc", "rec_stopped"}

\* C11: Stop never raises for an already-absent session: on a key with no
\* session it returns normally and changes nothing, also when it started while
\* an earlier Stop for the key was suspended in its recorder-stop or
\* peer-connection-close step.
C11_StopNeverRaises == [][C11_Step]_vars

\* The target user has no websocket in the room's dict of the Hub.
NotLive(room_id, target_user) ==
  \/ room_id \notin DOMAIN active_connections
  \/ ~Has(active_connections[room_id], target_user)

\* C12 (steps): send_to_user for a target that is not in the room's dict sends
\* nothing and hands its caller the outcome "undeliverable"; a send_to_user
\* that delivered hands its caller another outcome.
C12_Step ==
  \A t \in Sockets :
    /\ \A u \in UserIds, f \in FromUsers :
         (NotLive(task[t].room_id, u) /\ Receive(t, Negotiation(u, f))) =>
            /\ wire' = NoWire
            /\ returned'.call = "send_to_user"
            /\ returned'.value = "undeliverable"
    /\ (UnicastSend(t) /\ wire'.ok) =>
            /\ returned'.call = "send_to_user"
            /\ returned'.value # "undeliverable"

\* C12: SendToParticipant reports to its caller whether the message was
\* delivered: for a target with no live websocket in the room the caller gets
\* an outcome "undeliverable" that differs from the outcome of a delivery, and
\* no websocket receives the message.
C12_Undeliverable == [][C12_Step]_vars

\* C15 (steps): a negotiation message sends nothing in the step that receives
\* it; without to_user it leaves the loop receiving and the Hub as it was;
\* with to_user = T it is sent once, to the websocket that the dict of the
\* sender's room holds for T, a websocket opened on that room, and the copy
\* carries the sender's user_id as from_user.
C15_Step ==
  \A t \in Sockets :
    /\ \A u \in UserIds \cup {0}, f \in FromUsers :
         Receive(t, Negotiation(u, f)) =>
            /\ wire' = NoWire
            /\ UNCHANGED <<hubVars, regVars, recVars>>
            /\ u = 0 => task'[t].pc = "receive"
            /\ task'[t].pc \in {"receive", "unicast_send"}
            /\ task'[t].pc = "unicast_send" =>
                 /\ ~NotLive(task[t].room_id, u)
                 /\ task'[t].target =
                      [k |-> u, v |-> Get(active_connections[task[t].room_id], u)]
                 /\ task'[t].out =
                      Message("negotiation", task[t].user_id, {}, FALSE)
    /\ UnicastSend(t) =>
         /\ wire'.to = task[t].target.v
         /\ wire'.msg = Message("negotiation", task[t].user_id, {}, FALSE)
         /\ task[wire'.to].room_id = task[t].room_id
         /\ task[wire'.to].user_id = task[t].target.k
         /\ task'[t].pc \in {"receive", "send_error"}

\* C15: a negotiation message from sender S with to_user = T is delivered to
\* at most one websocket, the one registered for T in S's own room, with
\* from_user = S whatever the client wrote there; to no other websocket and to
\* none of another room; without to_user it goes to nobody and the loop goes on.
C15_Negotiation == [][C15_Step]_vars

\* A negotiation message in which the client wrote another user's identifier
\* as from_user was delivered to the target with the sender's own identifier.
C15_Witness ==
  \E t \in Sockets :
    /\ task[t].pc = "receive"
    /\ task[t].claimed \notin {0, task[t].user_id}
    /\ wire.ok
    /\ wire.to # t
    /\ wire.msg = Message("negotiation", task[t].user_id, {}, FALSE)

\* The websockets the signaling endpoint's Hub holds for room r.
LiveIn(r) ==
  IF r \in DOMAIN active_connections THEN Values(active_connections[r]) ELSE {}

\* C13 (steps): when end_room returns, every websocket that the signaling
\* endpoint had connected to the room is closed by the server and the Hub has
\* no entry for the room.
C13_Step ==
  \A r \in RoomIds :
    EndRoom(r) =>
       /\ r \notin DOMAIN active_connections'
       /\ \A w \in LiveIn(r) : ws'[w] = "closed"

\* C13: EndRoom(room) of the modular endpoints sends room-ended to every
\* websocket connected to the room through the signaling endpoint, closes each
\* of them, and leaves no Hub entry for the room.
C13_EndRoom == [][C13_Step]_vars

\* C14 (states): no room holds more participants than its max_participants.
C14_Within ==
  \A r \in DOMAIN rooms :
    rooms[r].current_participants <= rooms[r].max_participants

\* C14 (steps): a JoinRoom on a room whose count equals its capacity leaves
\* the Registry as it was.
C14_Step ==
  \A r \in RoomIds :
    (JoinRoom(r) /\ r \in DOMAIN rooms
       /\ rooms[r].current_participants >= rooms[r].max_participants) =>
      UNCHANGED regVars

\* C14: JoinRoom never brings a room's participant count above the room's
\* max_participants: a JoinRoom on a full room is rejected and changes nothing.
C14_Capacity == []C14_Within /\ [][C14_Step]_vars

\* The participants dict with the flags of user u of room r set to a and v.
WithFlags(ps, r, u, a, v) ==
  [ps EXCEPT ![r][u].is_audio_enabled = a, ![r][u].is_video_enabled = v]

\* C16 (steps): a media-toggle of participant P sets P's two flags in the
\* Registry to the values of the message and changes no other record and no
\* room; it sends nothing before the broadcast, which is of user-media-changed
\* with P's identifier and those values, over P's room, P excluded; each send
\* of that broadcast goes to a websocket of the room's dict that is not P's,
\* and a broadcast no other task disturbed has, when it ends, tried every such
\* websocket and delivered to each whose send did not fail.
C16_Step ==
  \A t \in Sockets :
    LET r == task[t].room_id
        u == task[t].user_id
    IN /\ \A a \in BOOLEAN, v \in BOOLEAN :
            Receive(t, MediaToggle(a, v)) =>
              /\ rooms' = rooms
              /\ participants' =
                    IF r \in DOMAIN participants /\ u \in DOMAIN participants[r]
                    THEN WithFlags(participants, r, u, a, v)
                    ELSE participants
              /\ UNCHANGED hubVars
              /\ wire' = NoWire
              /\ task'[t].pc \in {"bc_send", "receive"}
              /\ task'[t].pc = "receive" => LiveIn(r) \subseteq {t}
              /\ task'[t].pc = "bc_send" =>
                   /\ task'[t].frame.msg = MediaChanged(u, a, v)
                   /\ task'[t].frame.room = r
                   /\ task'[t].frame.exclude = u
                   /\ task'[t].frame.start = Items(active_connections[r])
       /\ (BroadcastSend(t) /\ task[t].frame.msg.type = "user-media-changed") =>
            LET f == task[t].frame
                c == f.cur.v
                failed == SocketsOf(f, f.disconnected)
                            \cup (IF wire'.ok THEN {} ELSE {c})
            IN /\ wire'.to = c
               /\ wire'.msg = f.msg
               /\ wire'.msg.user = u
               /\ c # t
               /\ UNCHANGED regVars
               /\ ~f.disturbed =>
                    /\ c \in Recipients(f)
                    /\ c \notin f.tried
                    /\ ~task'[t].frame.active =>
                         /\ f.tried \cup {c} = Recipients(f)
                         /\ (f.delivered \cup (IF wire'.ok THEN {c} ELSE {}))
                              = Recipients(f) \ failed
                         /\ task'[t].pc = "receive"

StopReturns(t) ==
  /\ task[t].pc \in {"stop_rec", "stop_pc"}
  /\ \/ task'[t].pc = "rec_stopped"
     \/ /\ task[t].stop_ctx = "finally"
        /\ Len(task'[t].teardown) = 2
        /\ ~task'[t].stop_failed
StopRaises(t) ==
  /\ task[t].pc \in {"stop_rec", "stop_pc"}
  /\ \/ task[t].stop_ctx = "loop" /\ task'[t].pc = "send_error"
     \/ ~task[t].stop_failed /\ task'[t].stop_failed

\* C17 (steps): when a Stop that found a session returns, the key has no
\* entry in sessions; an error of recorder.stop() or of pc.close() does not
\* leave Stop: the step in which one of them raised goes on with the rest of
\* Stop, and a Stop raises only at `del self.sessions[key]`, on a key that
\* another Stop has already removed.
C17_Step ==
  \A t \in Sockets :
    /\ StopReturns(t) => KeyOf(t) \notin DOMAIN sessions'
    /\ StopRaises(t) => KeyOf(t) \notin DOMAIN sessions
    /\ StopRecFails(t) =>
         /\ task'[t].stop_err
         /\ StopReturns(t) \/ StopRaises(t) \/ task'[t].pc = "stop_pc"
    /\ StopPcFails(t) =>
         /\ task'[t].stop_err
         /\ StopReturns(t) \/ StopRaises(t)

\* C17: after Stop returns for a key that had a session, the session entry is
\* absent from the manager whether or not the recorder-stop step or the
\* peer-connection-close step raised, and neither error reaches Stop's caller.
C17_EntryRemoved == [][C17_Step]_vars

\* A recorder-stop of the loop has returned although a step of it raised; the
\* session it found is gone from sessions.
C17_Witness ==
  \E t \in Sockets :
    /\ task[t].pc = "rec_stopped"
    /\ task[t].stop_err
    /\ Len(sess) >= 1
    /\ KeyOf(t) \notin DOMAIN sessions

\* C18 (steps): a CreateRoom whose max_participants is zero or negative leaves
\* the room records and the participant sets as they were.
C18_Step ==
  \A cap \in Capacities :
    (cap <= 0 /\ CreateRoom(cap)) =>
      /\ rooms' = rooms
      /\ participants' = participants

\* C18: CreateRoom(maxParticipants) with maxParticipants <= 0 is rejected and
\* creates no room record and no participant set in the Registry.
C18_Rejected == [][C18_Step]_vars

\* The broadcast of new-user-joined that connect makes for task t is at a
\* send_text.
Announcing(t) ==
  /\ task[t].pc = "bc_send"
  /\ task[t].frame.caller = "connect"

\* C19 (steps): each send of the new-user-joined announcement of connect goes
\* to a user that was listed in existing_users of the room-joined event, and
\* not to the connecting user; and when the broadcast is over, the users it
\* reached are those of existing_users.
C19_Step ==
  \A t \in AllSockets :
    (Announcing(t) /\ BroadcastSend(t)) =>
      LET f == task[t].frame
          reached == f.reached \cup (IF wire'.ok THEN {f.cur.k} ELSE {})
      IN /\ f.msg.type = "new-user-joined"
         /\ wire'.ok => /\ f.cur.k \in task[t].existing_users
                        /\ f.cur.k # task[t].user_id
         /\ ~Announcing(t)' => reached = task[t].existing_users

\* C19: the new-user-joined announcement for a connecting participant P is
\* delivered to exactly the members of the existing-user set reported in P's
\* room-joined event, never to P, and after room-joined was sent, whatever
\* other websockets connect to or disconnect from the room while connect is
\* suspended.
C19_Announcement == [][C19_Step]_vars

\* The positions of a task inside RecorderManager.start_or_renegotiate or
\* RecorderManager.stop: the await it is suspended on.
RecorderPcs == {"rec_remote", "rec_answer", "rec_local", "stop_rec", "stop_pc"}

\* start_or_renegotiate of task t has applied the remote description and has
\* not finished setLocalDescription.
Negotiating(t) == task[t].pc \in {"rec_answer", "rec_local"}

\* Task u takes a step of start_or_renegotiate or of stop: it enters, goes on
\* in or leaves one of the two calls, or changes the recorder's state.
RecorderStepOf(u) ==
  /\ task'[u] # task[u]
  /\ \/ task[u].pc \in RecorderPcs
     \/ task'[u].pc \in RecorderPcs
     \/ recVars' # recVars

\* C20 (steps): while one start_or_renegotiate is between its
\* setRemoteDescription and the end of its setLocalDescription, no other task
\* takes a step of start_or_renegotiate or of stop for the same key.
C20_Step ==
  \A t \in Sockets, u \in Sockets :
    (t # u /\ Negotiating(t) /\ KeyOf(u) = KeyOf(t)) => ~RecorderStepOf(u)

\* C20: operations on one (room, participant) recording key are strictly
\* ordered: between the apply-remote-description step and the create-answer
\* and set-local-description steps of one StartOrRenegotiate no step of
\* another StartOrRenegotiate and no step of Stop for that key executes.
C20_Ordered == [][C20_Step]_vars

\* The on_track handlers suspended in await self.recorder.start() of
\* recorder r.
Starting(r) == {h \in Tracks : trk[h].pc = "start" /\ trk[h].rid = r}

\* C21: for one recording session, whatever tracks arrive and however their
\* on_track handlers interleave, at most one recorder is created and its
\* start is issued once: the starts that are over and the starts being
\* awaited are together at most one.
C21_StartOnce ==
  /\ \A sid \in DOMAIN sess :
       Cardinality({r \in DOMAIN recs : recs[r].sid = sid}) <= 1
  /\ \A r \in DOMAIN recs : recs[r].starts + Cardinality(Starting(r)) <= 1

\* Session sid has been stopped: RecorderSession.stop has run to its end on
\* it (self.pc = None; no other code leaves a session without a peer
\* connection between two steps).
Stopped(sid) == sess[sid].pc = 0

\* C22 (states): once stop is over for a session, no recorder created for the
\* session is running and every peer connection of the session is closed.
C22_Nothing ==
  \A sid \in DOMAIN sess :
    Stopped(sid) =>
      /\ \A r \in DOMAIN recs : recs[r].sid = sid => ~recs[r].running
      /\ \A p \in DOMAIN pcs : pcs[p].sid = sid => pcs[p].state = "closed"

\* C22 (steps): a peer connection is closed only when no recorder of its
\* session is running.
C22_Step ==
  \A p \in DOMAIN pcs :
    (pcs[p].state = "open" /\ pcs'[p].state = "closed") =>
      \A r \in DOMAIN recs : recs[r].sid = pcs[p].sid => ~recs'[r].running

\* C22: stop releases everything the session holds: it stops the recorder
\* before it closes the peer connection, and once it has returned no recorder
\* of the session is running and its peer connection is closed, also when a
\* recorder exists whose start is not over.
C22_Released == []C22_Nothing /\ [][C22_Step]_vars

\* Task t takes a step of the loop's recorder branches: it receives a
\* recorder message, or an await of recorder.start_or_renegotiate or of
\* recorder.stop called from the loop is over.
RecorderBranchStep(t) ==
  \/ \E m \in RecorderMessages : Receive(t, m)
  \/ /\ task[t].stop_ctx # "finally"
     /\ RecRemote(t) \/ RecAnswer(t) \/ RecLocal(t) \/ StopRec(t) \/ StopPc(t)

\* C23 (steps): a step of a recorder branch of the loop, whether the peer
\* connection or the recorder fails in it or not, does not lead to the error
\* envelope, keeps the task in the loop, and leaves the Hub and the Registry
\* as they were.
C23_Step ==
  \A t \in Sockets :
    RecorderBranchStep(t) =>
      /\ task'[t].pc # "send_error"
      /\ task'[t].pc \in RecorderPcs \cup {"rec_reply", "rec_stopped", "receive"}
      /\ hubVars' = hubVars
      /\ regVars' = regVars

\* C23: a failure of the peer connection or of the recorder while the loop
\* handles recorder-offer, recorder-ice-candidate or recorder-stop never ends
\* the loop and is never propagated to the client: no error envelope is sent
\* for it, and the sender's Hub membership and Registry record are untouched.
C23_BestEffort == [][C23_Step]_vars

\* The websockets registered for room r or open on it.
OfRoom(r) ==
  {t \in Sockets : task[t].room_id = r /\ task[t].pc \notin {"idle", "done"}}

\* C24 (states): when end_room is over and the teardowns of the members have
\* run, end_room has not raised, neither Hub index holds an entry for the
\* room, and no websocket is left open.
C24_Ended ==
  (task[Host].pc = "ended" /\ OfRoom(task[Host].room_id) = {}) =>
     /\ ~task[Host].crashed
     /\ task[Host].room_id \notin DOMAIN active_connections
     /\ \A t \in DOMAIN user_to_room : user_to_room[t][1] # task[Host].room_id
     /\ \A t \in Sockets : ws[t] # "open"

\* C24 (steps): no step of end_room raises.
C24_Step == task'[Host].pc = "ended" => ~task'[Host].crashed

\* C24: EndRoom is independent of the empty-room clean-up of disconnect: for
\* every interleaving of its closes with the disconnects they trigger in the
\* members' loops, end_room completes without raising, and once those
\* teardowns have run neither Hub index holds an entry for the room and no
\* websocket that was live in the room is left open.
C24_Independent == []C24_Ended /\ [][C24_Step]_vars

\* The Registry record of user u of room r is in ps2 as it is in ps1.
SameRecord(ps1, ps2, r, u) ==
  (r \in DOMAIN ps1 /\ u \in DOMAIN ps1[r]) =>
     /\ r \in DOMAIN ps2
     /\ u \in DOMAIN ps2[r]
     /\ ps2[r][u] = ps1[r][u]

\* C25 (steps): a step of task t in which the failed send of a broadcast or
\* of send_to_user evicts websocket x leaves the Registry record of x's user
\* as it was, and the whole Registry unless the broadcast is the user-left
\* broadcast of t's own disconnect, which goes on to leave_room for t's user;
\* and a teardown of an evicted websocket that comes to its end removes its
\* user from the Registry.
C25_Step ==
  \A x \in Sockets :
    /\ (~task[x].evicted /\ task'[x].evicted) =>
         /\ SameRecord(participants, participants', task[x].room_id,
                       task[x].user_id)
         /\ \A t \in Sockets :
              ((BroadcastSend(t) \/ UnicastSend(t))
                 /\ task'[t].n_leave = task[t].n_leave) =>
                regVars' = regVars
    /\ (task[x].evicted /\ task[x].pc # "done" /\ task'[x].pc = "done"
          /\ ~task'[x].crashed) =>
         /\ task'[x].n_leave = 1
         /\ task[x].room_id \in DOMAIN participants' =>
              task[x].user_id \notin DOMAIN participants'[task[x].room_id]

\* C25 (states): the teardown of an evicted websocket, once over, has made one
\* user-left broadcast and one leave_room call.
C25_Once ==
  \A x \in Sockets :
    (task[x].evicted /\ task[x].pc = "done" /\ ~task[x].crashed) =>
       /\ task[x].n_user_left = 1
       /\ task[x].n_leave = 1

C26_Step ==
  \A t \in AllSockets :
    (task[t].registered /\ task[t].pc # "done" /\ task'[t].pc = "done") =>
      LET r == task[t].room_id
          u == task[t].user_id
      IN /\ t \notin DOMAIN user_to_room'
         /\ r \in DOMAIN active_connections' =>
              /\ t \notin Values(active_connections'[r])
              /\ Size(active_connections'[r]) > 0
         /\ r \in DOMAIN participants' => u \notin DOMAIN participants'[r]

\* C26: every disconnect of a registered websocket completes with the
\* websocket absent from both Hub indices, the participant removed from the
\* Registry, and the room's dict removed when no websocket remains in it,
\* whatever other tasks connect to, disconnect from or are evicted from the
\* room while disconnect is suspended in its user-left broadcast.
C26_Completes == [][C26_Step]_vars

\* C27 (steps): what a reader gets from get_room and get_room_participants,
\* whenever it reads, is a room whose stored count is the size of the
\* participant set it lists, and a room that has its participant set.
C27_Step ==
  \A r \in RoomIds :
    GetRoomInfo(r) =>
      LET v == get_room_info(rooms, participants, r)
      IN v.status = "200" =>
           /\ r \in DOMAIN participants
           /\ \A room \in v.room :
                room.current_participants = Cardinality(v.participants)

C28_HubInRegistry ==
  \A r \in DOMAIN active_connections :
    \A u \in Keys(active_connections[r]) :
      /\ r \in DOMAIN participants
      /\ u \in DOMAIN participants[r]

\* Task t takes a step of its teardown (the finally of the endpoint).
TeardownStep(t) ==
  /\ task'[t].teardown # <<>>
  /\ \/ task'[t].pc # task[t].pc
     \/ task'[t].teardown # task[t].teardown
     \/ task'[t].frame.pos # task[t].frame.pos

\* Websocket t2 is live and holds the entry of its (room, user) in
\* active_connections.
Holds(t2) ==
  /\ ws[t2] = "open"
  /\ task[t2].room_id \in DOMAIN active_connections
  /\ Has(active_connections[task[t2].room_id], task[t2].user_id)
  /\ Get(active_connections[task[t2].room_id], task[t2].user_id) = t2

\* C29 (steps): a step of the teardown of websocket t, while another
\* websocket t2 of the same (room, user) is live and holds the forward entry,
\* leaves that entry mapped to t2, the participant in the Registry, and the
\* recording session of the key with its peer connection as they were.
C29_Step ==
  \A t \in Sockets, t2 \in Sockets :
    (t # t2 /\ KeyOf(t) = KeyOf(t2) /\ Holds(t2) /\ ws'[t2] = "open"
       /\ TeardownStep(t)) =>
      /\ Holds(t2)'
      /\ SameRecord(participants, participants', task[t2].room_id,
                    task[t2].user_id)
      /\ KeyOf(t2) \in DOMAIN sessions =>
           /\ KeyOf(t2) \in DOMAIN sessions'
           /\ sessions'[KeyOf(t2)] = sessions[KeyOf(t2)]
           /\ \A p \in DOMAIN pcs : pcs'[p].state = pcs[p].state

\* C29: disconnect of websocket t removes from active_connections only an
\* entry whose websocket is t: when a second websocket t2 has connected with
\* the same (room, user), tearing down t does not remove the entry that maps
\* to t2, does not remove the participant from the Registry and does not stop
\* the recording session while t2 is live.
C29_OnlyOwnEntry == [][C29_Step]_vars

\* C30 (steps): the step in which an await of a broadcast of the loop or of
\* disconnect is over does not raise, whatever other tasks did to the room's
\* dict meanwhile; and when the broadcast is over with it, every user other
\* than the excluded one that the dict held at the start and still holds,
\* with its websocket open, has been sent the message.
C30_Step ==
  \A t \in AllSockets :
    (BroadcastSend(t) /\ task[t].frame.caller \in {"loop", "disconnect"}) =>
      LET f == task[t].frame
          sent == f.delivered \cup (IF wire'.ok THEN {wire'.to} ELSE {})
      IN /\ f.caller = "loop" => task'[t].pc # "send_error"
         /\ f.caller = "disconnect" => ~task'[t].crashed
         /\ ~task'[t].frame.active =>
              \A e \in f.start :
                (e[1] # f.exclude /\ ws'[e[2]] = "open"
                   /\ f.room \in DOMAIN active_connections
                   /\ Has(active_connections[f.room], e[1])
                   /\ Get(active_connections[f.room], e[1]) = e[2]) =>
                  e[2] \in sent

\* C30: a broadcast_to_room that is suspended in a send while another task
\* adds or removes a member of the same room's dict (connect, disconnect, an
\* eviction) still completes without raising and delivers the message to
\* every non-excluded member that stayed live for the whole broadcast; its
\* caller, the loop or disconnect, never sees an error caused by the change.
C30_Undisturbed == [][C30_Step]_vars

\* C31 (steps): the step in which a Stop that was suspended in
\* recorder.stop() or pc.close() resumes removes from sessions only the entry
\* of the session it stopped, and leaves no peer connection of the session
\* whose entry it removed open.
C31_Step ==
  \A t \in Sockets :
    (StopRec(t) \/ StopPc(t)) =>
      \A key \in DOMAIN sessions :
        key \notin DOMAIN sessions' =>
          /\ sessions[key] = task[t].sid
          /\ \A p \in DOMAIN pcs' :
               pcs'[p].sid = sessions[key] => pcs'[p].state = "closed"

\* C31: Stop(key) removes only the session it stopped: a Stop that resumes
\* after another Stop removed the key's entry and a start_or_renegotiate
\* created a new session for the key does not delete the new session's entry,
\* so no peer connection stays open without a session entry that refers to it.
C31_OwnSessionOnly == [][C31_Step]_vars

\* C32 (steps): a send of the new-user-joined announcement of websocket t
\* that reaches websocket c, when c has been sent its room-joined event and
\* its connect still holds the existing_users it listed there, announces a
\* user that c's room-joined did not list (the websockets of a room are those
\* of distinct users here, so the user is the peer connection).
C32_Step ==
  \A t \in Members, c \in Members :
    (Announcing(t) /\ BroadcastSend(t) /\ wire'.ok /\ wire'.to = c
       /\ wire'.msg.type = "new-user-joined" /\ Announcing(c)) =>
      wire'.msg.user \notin task[c].existing_users

\* C32: a connected participant is told about a given peer connection at
\* most once: a peer listed in existing_users of its room-joined event is not
\* afterwards announced to it by new-user-joined, for every interleaving of
\* three or more connects to the same room.
C32_ToldOnce == [][C32_Step]_vars

\* C33 (steps): from the state the copy of repos/ has reached, each Registry
\* call gives the same result and the same stored rooms and participants in
\* the copy of main.py: the writer the step runs (create_room with its
\* explicit capacity, join_room, leave_room), and, on every argument,
\* update_media_status and the readers get_room and get_room_participants.
C33_Step ==
  /\ \A cap \in Capacities :
       CreateRoom(cap) =>
         LET m == main_create_room(rooms, participants, next_room_id, cap)
         IN m.rooms = rooms' /\ m.participants = participants'
  /\ \A room_id \in RoomIds :
       JoinRoom(room_id) =>
         LET m == main_join_room(rooms, participants, room_id, next_user_id)
         IN /\ m.status = join_room(rooms, participants, room_id, next_user_id).status
            /\ m.rooms = rooms'
            /\ m.participants = participants'
  /\ \A room_id \in RoomIds, user_id \in UserIds :
       /\ LeaveRoom(room_id, user_id) =>
            LET m == main_leave_room(rooms, participants, room_id, user_id)
            IN m.rooms = rooms' /\ m.participants = participants'
       /\ \A a \in BOOLEAN, v \in BOOLEAN :
            main_update_media_status(participants, room_id, user_id, a, v)
              = update_media_status(participants, room_id, user_id, a, v)
  /\ \A room_id \in RoomIds :
       /\ main_get_room(rooms, room_id) = get_room(rooms, room_id)
       /\ main_get_room_participants(participants, room_id)
            = get_room_participants(participants, room_id)

\* C33: the FileStorageManager of main.py and the FileStorageManager of
\* repos/file_storage_manager_repo.py are observationally equivalent: on every
\* sequence of create_room (explicit capacity), join_room, leave_room,
\* update_media_status, get_room and get_room_participants both return the
\* same results, rejections included, and store the same rooms and
\* participants.
C33_CopiesEquivalent == [][C33_Step]_vars

====
